---- MODULE Spec2Model ----
(***************************************************************************)
(* Resource access and lifecycle engine of the drive backend: the           *)
(* permission middleware, the file and folder routes, and the tables of     *)
(* supabase-schema.sql they act on.  Every request handler is one action;   *)
(* the response it sends is kept in resp.                                   *)
(***************************************************************************)
EXTENDS Integers, Sequences, FiniteSets, TLC

\* ---------------------------------------------------------------- bounds
MaxFiles == 1
MaxFolders == 1
MaxTime == 1
MaxTreeFolders == 2
MaxSharedFiles == 2
MaxSearchFiles == 2

\* ------------------------------------------------------------ value sets
\* A nullable column holds Null or Some(v).
Null == <<>>
Some(v) == <<v>>

\* users.id values (UUIDs in the schema; abbreviated).
Users == {"u1", "u2"}
\* users.email of each user.
EmailOf == [u \in Users |-> u]

\* files.id and folders.id are SERIAL: the decimal strings a URL carries.
FileId(n) == ToString(n)
FolderId(n) == ToString(n)
FileIds == {FileId(n) : n \in 1..MaxFiles}
FolderIds == {FolderId(n) : n \in 1..MaxFolders}
\* A request parameter that has the shape of a UUID (it names no SERIAL row).
UuidParam == "00000000-0000-4000-8000-000000000000"
\* Share tokens: what uuidv4() can return.
Tokens == {"t1", "t2"}

\* File names a client can send, and what sanitizeFileName makes of them.
NoName == ""
FileNames == {"a", "b", "a/", "..", "a~", NoName}
\* Folder names a client can send, and what sanitizeInput makes of them.
FolderNames == {"R", " R ", "<R>", "S", NoName}
Levels == {"view", "edit", "owner"}

\* ----------------------------------------------------------------- state
VARIABLES
  files,               \* table files: id -> row
  folders,             \* table folders: id -> row
  file_permissions,    \* table file_permissions: <<file_id, user_id>> -> permission
  folder_permissions,  \* table folder_permissions: <<folder_id, user_id>> -> permission
  storage,             \* bucket 'files' of the Object Store: the paths that hold an object
  nextFileId,          \* sequence behind files.id
  nextFolderId,        \* sequence behind folders.id
  now,                 \* the clock (Date.now() of the server, NOW() of the store)
  resp,                \* the response to the last request
  calls,               \* the collaborator calls the last upload or purge issued, in order
  snap,                \* the row the last successful soft-delete, revoke or re-issue found, until a
                       \* request other than its follow-up (restore, token access) is served
  session,             \* express-session store: session id -> the csrfToken kept in it
  request,             \* the headers of the request at the CSRF middleware
  requests,            \* the Map of the upload route's userRateLimit: userId -> entry
  admitted,            \* per user, the times at which userRateLimit called next()
  inflight             \* the requests whose handlers run concurrently: slot -> the
                       \* handler's position and locals, then its response

vars == <<files, folders, file_permissions, folder_permissions, storage,
          nextFileId, nextFolderId, now, resp, calls, snap, session, request,
          requests, admitted, inflight>>
csrf == <<session, request>>
limiter == <<requests, admitted>>
\* The state a route handler leaves alone: it lives in the middleware.
memory == <<csrf, limiter, inflight>>
tables == <<files, folders, file_permissions, folder_permissions, storage>>

\* ------------------------------------------------------- utils/security
\* validator.isUUID: true of user ids, share tokens and UUID-shaped parameters,
\* false of the decimal strings of a SERIAL id and of the empty string.
isValidUUID(s) == s \in Users \cup Tokens \cup {UuidParam}

\* sanitizeQueryParam removes quotes, comment marks and SQL words; the ids and
\* tokens of this model hold none, a quoted id loses its quote.
sanitizeQueryParam(p) == IF p = "1'" THEN "1" ELSE p

\* sanitizeFileName: '' for a missing name, else the name with "..", path
\* separators and reserved characters removed, 'untitled' when nothing is left.
sanitizeFileName(fileName) ==
  CASE fileName = NoName -> ""
    [] fileName = "a/" -> "a"
    [] fileName = ".." -> "untitled"
    [] OTHER -> fileName

\* sanitizeInput: '' for a missing value, else the value trimmed and HTML-escaped
\* (validator.escape), with script patterns removed.
sanitizeInput(input) ==
  CASE input = " R " -> "R"
    [] input = "<R>" -> "&lt;R&gt;"
    [] OTHER -> input

\* sanitizeOutput: the text with its HTML characters escaped.
sanitizeOutput(output) ==
  CASE output = "<R>" -> "&lt;R&gt;"
    [] output = "&lt;R&gt;" -> "&amp;lt;R&amp;gt;"
    [] OTHER -> output

\* validateFilePath: false for a path holding "..", "~" or an absolute prefix.
\* A storage path is <<owner, Date.now(), sanitized name>>.
validateFilePath(filePath) == filePath /= Null /\ filePath[3] \notin {"..", "a~"}

\* sanitizeErrorMessage: the collaborator's message, escaped, with the words
\* password, token and key replaced.
sanitizeErrorMessage(error) ==
  CASE error = "duplicate key value violates unique constraint" ->
         "duplicate [REDACTED] value violates unique constraint"
    [] error = "violates foreign key constraint" ->
         "violates foreign [REDACTED] constraint"
    [] error = "Invalid API key" -> "Invalid API [REDACTED]"
    [] error = "" -> "An error occurred"
    [] OTHER -> error

\* The messages of the collaborators' failures.
ErrStorage == "The resource already exists"
ErrStorageDown == "storage unavailable"
ErrDbDown == "Invalid API key"
ErrForeignKey == "violates foreign key constraint"
ErrUnique == "duplicate key value violates unique constraint"
ErrNoRows == "JSON object requested, multiple (or no) rows returned"

\* ------------------------------------------------------------ responses
NoResp == [op |-> "none", caller |-> "", id |-> "", arg |-> "", status |-> 0,
           error |-> "", ids |-> {}, data |-> Null]
Reply(op, caller, id, arg, status, error) ==
  [op |-> op, caller |-> caller, id |-> id, arg |-> arg, status |-> status,
   error |-> error, ids |-> {}, data |-> Null]

\* The response of a grant route once the permission check is passed; the
\* email and the permission of the request's body are kept with it (arg, data).
GrantReply(op, caller, id, email, permission, status, error) ==
  [Reply(op, caller, id, email, status, error) EXCEPT !.data = Some(permission)]

\* ------------------------------------------------- middleware/permissions
permissionLevels == [view |-> 1, edit |-> 2, owner |-> 3]

\* A permission check that consults the grant row before the ownership: an
\* owner holding a low grant row is measured by that row.
checkFilePermissionGrantFirst(id, userId, requiredPermission) ==
  IF <<id, userId>> \in DOMAIN file_permissions
  THEN IF permissionLevels[file_permissions[<<id, userId>>]]
            < permissionLevels[requiredPermission]
       THEN "Insufficient permissions"
       ELSE "next"
  ELSE IF id \in DOMAIN files /\ files[id].owner_id = userId THEN "next"
       ELSE "Access denied"

\* A file permission check in which a grant on the file's folder counts as a
\* grant on the file.
checkFilePermissionInherits(id, userId, requiredPermission) ==
  IF id \in DOMAIN files /\ files[id].owner_id = userId THEN "next"
  ELSE IF <<id, userId>> \in DOMAIN file_permissions
    THEN IF permissionLevels[file_permissions[<<id, userId>>]]
              < permissionLevels[requiredPermission]
         THEN "Insufficient permissions"
         ELSE "next"
  ELSE IF /\ id \in DOMAIN files
          /\ files[id].folder_id /= <<>>
          /\ <<files[id].folder_id[1], userId>> \in DOMAIN folder_permissions
    THEN IF permissionLevels[folder_permissions[<<files[id].folder_id[1], userId>>]]
              < permissionLevels[requiredPermission]
         THEN "Insufficient permissions"
         ELSE "next"
  ELSE "Access denied"

\* What the middleware does: "next", or the error of its 403 response.
checkFilePermission(id, userId, requiredPermission) ==
  IF id \in DOMAIN files /\ files[id].owner_id = userId THEN "next"
  ELSE IF <<id, userId>> \notin DOMAIN file_permissions THEN "Access denied"
  ELSE IF permissionLevels[file_permissions[<<id, userId>>]]
            < permissionLevels[requiredPermission]
       THEN "Insufficient permissions"
       ELSE "next"

\* A folder permission check that tells a caller when the folder does not
\* exist.
checkFolderPermissionTellsAbsent(id, userId, requiredPermission) ==
  IF id \notin DOMAIN folders THEN "Folder not found"
  ELSE IF folders[id].owner_id = userId THEN "next"
  ELSE IF <<id, userId>> \notin DOMAIN folder_permissions THEN "Access denied"
  ELSE IF permissionLevels[folder_permissions[<<id, userId>>]]
            < permissionLevels[requiredPermission]
       THEN "Insufficient permissions"
       ELSE "next"

checkFolderPermission(id, userId, requiredPermission) ==
  IF id \in DOMAIN folders /\ folders[id].owner_id = userId THEN "next"
  ELSE IF <<id, userId>> \notin DOMAIN folder_permissions THEN "Access denied"
  ELSE IF permissionLevels[folder_permissions[<<id, userId>>]]
            < permissionLevels[requiredPermission]
       THEN "Insufficient permissions"
       ELSE "next"

\* The middleware run on its own for a request by userId on /:id: it answers
\* 403, or sends nothing and calls next().
RunCheckFilePermission(userId, id, requiredPermission) ==
  LET verdict == checkFilePermission(id, userId, requiredPermission)
  IN /\ UNCHANGED memory /\ resp' = IF verdict = "next"
                THEN [Reply("checkFilePermission", userId, id, requiredPermission, 0, "")
                        EXCEPT !.data = Some("next")]
                ELSE Reply("checkFilePermission", userId, id, requiredPermission, 403, verdict)
     /\ UNCHANGED <<tables, nextFileId, nextFolderId, now, calls, snap>>

RunCheckFolderPermission(userId, id, requiredPermission) ==
  LET verdict == checkFolderPermission(id, userId, requiredPermission)
  IN /\ UNCHANGED memory /\ resp' = IF verdict = "next"
                THEN [Reply("checkFolderPermission", userId, id, requiredPermission, 0, "")
                        EXCEPT !.data = Some("next")]
                ELSE Reply("checkFolderPermission", userId, id, requiredPermission, 403, verdict)
     /\ UNCHANGED <<tables, nextFileId, nextFolderId, now, calls, snap>>

\* ------------------------------------------------------------ frame help
\* A request that answers and, on its way, rewrites every file row, so that
\* the updated_at trigger stamps them.
AnswerTouching(r) ==
  /\ UNCHANGED memory
  /\ resp' = r
  /\ calls' = <<>>
  /\ snap' = Null
  /\ files' = [f \in DOMAIN files |-> [files[f] EXCEPT !.updated_at = now]]
  /\ UNCHANGED <<folders, file_permissions, folder_permissions, storage,
                 nextFileId, nextFolderId, now>>

\* A request that writes nothing: only the response changes.
Answer(r) ==
  /\ UNCHANGED memory
  /\ resp' = r
  /\ calls' = <<>>
  /\ snap' = Null
  /\ UNCHANGED <<tables, nextFileId, nextFolderId, now>>

\* The BEFORE UPDATE trigger update_updated_at_column of files and folders.
Touched(row) == [row EXCEPT !.updated_at = now]

\* ------------------------------------------------------- routes/files.ts
AllowedTypes == {"application/pdf", "text/plain"}
PublicUrl(fileName) == <<"public", fileName>>

\* The row POST /upload inserts; created_at and updated_at default to NOW().
NewFileRow(u, name, size, format, folderId, fileName) ==
  [name |-> name, size |-> size, format |-> format,
   path |-> PublicUrl(fileName), storage_path |-> fileName, owner_id |-> u,
   folder_id |-> IF folderId = "" THEN Null ELSE Some(folderId),
   share_token |-> Null, is_public |-> FALSE, deleted_at |-> Null,
   created_at |-> now, updated_at |-> now]

\* An upload that leaves the stored object where it is when the insert fails.
UploadNoCleanup(fileName, rm) ==
  [calls |-> <<>>, storage |-> storage \cup {fileName}]

\* What POST /upload does about the object it stored once the insert has
\* failed: the calls it issues and the bucket they leave.  rm: the outcome of
\* the removal.
UploadCleanup(fileName, rm) ==
  [calls |-> << <<"storage.remove", fileName, rm>> >>,
   storage |-> IF rm = "ok" THEN storage \ {fileName} ELSE storage \cup {fileName}]

\* POST /upload.  hasFile: the request carries a file part; put, ins, rm, perm:
\* the outcomes ("ok" or "error") the collaborators give the four calls; perm
\* may also be "throw": the awaited grant insert rejects and the handler's
\* catch block answers.
Upload(u, hasFile, name, size, format, folderId, put, ins, rm, perm) ==
  LET fileName == <<u, now, sanitizeFileName(name)>>
      id == FileId(nextFileId)
      putFails == put = "error" \/ fileName \in storage
      fkFails == folderId /= "" /\ folderId \notin DOMAIN folders
      uniqueFails == \E f \in DOMAIN files : files[f].storage_path = fileName
      insError == IF ins = "error" THEN ErrDbDown
                  ELSE IF fkFails THEN ErrForeignKey
                  ELSE IF uniqueFails THEN ErrUnique ELSE ""
      row == NewFileRow(u, name, size, format, folderId, fileName)
      cleanup == UploadCleanup(fileName, rm)
  IN
  /\ snap' = Null
  /\ UNCHANGED <<folders, folder_permissions, nextFolderId, now>>
  /\ IF ~hasFile THEN
       /\ UNCHANGED memory
       /\ resp' = Reply("upload", u, "", "", 400, "No file uploaded")
       /\ calls' = <<>>
       /\ UNCHANGED <<files, file_permissions, storage, nextFileId>>
     ELSE IF format \notin AllowedTypes THEN
       \* multer's fileFilter refuses the part: the error middleware answers
       /\ UNCHANGED memory
       /\ resp' = Reply("upload", u, "", "", 500, "Internal server error")
       /\ calls' = <<>>
       /\ UNCHANGED <<files, file_permissions, storage, nextFileId>>
     ELSE IF name = NoName THEN
       \* validateFileUpload
       /\ UNCHANGED memory
       /\ resp' = Reply("upload", u, "", "", 400, "Invalid file name")
       /\ calls' = <<>>
       /\ UNCHANGED <<files, file_permissions, storage, nextFileId>>
     ELSE IF putFails THEN
       /\ UNCHANGED memory
       /\ resp' = Reply("upload", u, "", "", 500,
                        sanitizeErrorMessage(IF put = "error" THEN ErrStorageDown
                                             ELSE ErrStorage))
       /\ calls' = << <<"storage.upload", fileName,
                        IF put = "error" THEN ErrStorageDown ELSE ErrStorage>> >>
       /\ UNCHANGED <<files, file_permissions, storage, nextFileId>>
     ELSE IF insError /= "" THEN
       \* clean up the uploaded object, then answer with the insert's error
       /\ storage' = cleanup.storage
       /\ calls' = << <<"storage.upload", fileName, "ok">>,
                      <<"files.insert", fileName, insError>> >> \o cleanup.calls
       /\ UNCHANGED memory
       /\ resp' = Reply("upload", u, "", "", 500, sanitizeErrorMessage(insError))
       /\ nextFileId' = IF ins = "error" THEN nextFileId ELSE nextFileId + 1
       /\ UNCHANGED <<files, file_permissions>>
     ELSE
       /\ storage' = storage \cup {fileName}
       /\ files' = files @@ (id :> row)
       /\ nextFileId' = nextFileId + 1
       /\ file_permissions' = IF perm = "ok"
                              THEN file_permissions @@ (<<id, u>> :> "owner")
                              ELSE file_permissions
       /\ UNCHANGED memory
       /\ resp' = IF perm = "throw" THEN Reply("upload", u, "", "", 500, "Upload failed")
                  ELSE Reply("upload", u, id, "", 200, "")
       /\ calls' = << <<"storage.upload", fileName, "ok">>,
                      <<"files.insert", fileName, "ok">>,
                      <<"file_permissions.insert", fileName, perm>> >>

\* Row filters that drop one condition of the handlers' filters, and a
\* soft-delete that also revokes the share link.
FileSoftDeleteRowAnyState(u, id) ==
  id \in DOMAIN files /\ files[id].owner_id = u
FileRestoreRowAnyOwner(u, id) ==
  id \in DOMAIN files /\ files[id].deleted_at /= Null
FilePurgeRowAnyState(u, id) ==
  id \in DOMAIN files /\ files[id].owner_id = u
FilePurgeRowAnyOwner(u, id) ==
  id \in DOMAIN files /\ files[id].deleted_at /= Null
FileSoftDeletedUnshared(row) ==
  Touched([row EXCEPT !.deleted_at = Some(now), !.share_token = Null,
                      !.is_public = FALSE])

\* The rows the handlers' update, select and delete filters match.
\* DELETE /:id: .eq('id').eq('owner_id').is('deleted_at', null)
FileSoftDeleteRow(u, id) ==
  id \in DOMAIN files /\ files[id].owner_id = u /\ files[id].deleted_at = Null
\* POST /:id/restore: .eq('id').eq('owner_id').not('deleted_at', 'is', null)
FileRestoreRow(u, id) ==
  id \in DOMAIN files /\ files[id].owner_id = u /\ files[id].deleted_at /= Null
\* DELETE /:id/permanent: .eq('id').eq('owner_id').not('deleted_at', 'is', null)
FilePurgeRow(u, id) ==
  id \in DOMAIN files /\ files[id].owner_id = u /\ files[id].deleted_at /= Null
\* The update of DELETE /:id, with the updated_at trigger.
FileSoftDeleted(row) == Touched([row EXCEPT !.deleted_at = Some(now)])

\* GET / (list files).  folderId, cursor: query parameters, "" when absent.
ListFiles(u, folderId, cursor) ==
  LET sanitizedFolderId == IF folderId /= "" THEN sanitizeQueryParam(folderId) ELSE ""
      inFolder == sanitizedFolderId /= "" /\ sanitizedFolderId /= "null"
                    /\ isValidUUID(sanitizedFolderId)
      rows == {f \in DOMAIN files :
                 /\ files[f].owner_id = u
                 /\ files[f].deleted_at = Null
                 /\ IF inFolder THEN files[f].folder_id = Some(sanitizedFolderId)
                    ELSE files[f].folder_id = Null
                 /\ cursor /= Null => files[f].created_at < cursor[1]}
  IN Answer([Reply("listFiles", u, "", folderId, 200, "") EXCEPT !.ids = rows,
                                                                !.data = cursor])

\* GET /trash
ListTrash(u) ==
  LET rows == {f \in DOMAIN files :
                 files[f].owner_id = u /\ files[f].deleted_at /= Null}
  IN Answer([Reply("listTrash", u, "", "", 200, "") EXCEPT !.ids = rows])

\* DELETE /:id (soft delete)
SoftDeleteFile(u, id) ==
  LET verdict == checkFilePermission(id, u, "owner")
      hit == FileSoftDeleteRow(u, id)
  IN IF verdict /= "next" THEN Answer(Reply("softDeleteFile", u, id, "", 403, verdict))
     ELSE IF ~hit THEN Answer(Reply("softDeleteFile", u, id, "", 404, "File not found"))
     ELSE /\ files' = [files EXCEPT ![id] = FileSoftDeleted(@)]
          /\ UNCHANGED memory
          /\ resp' = Reply("softDeleteFile", u, id, "", 200, "")
          /\ snap' = Some([kind |-> "file", id |-> id, row |-> files[id]])
          /\ calls' = <<>>
          /\ UNCHANGED <<folders, file_permissions, folder_permissions, storage,
                         nextFileId, nextFolderId, now>>

\* PUT /:id (rename)
RenameFile(u, id, name) ==
  LET verdict == checkFilePermission(id, u, "edit")
      sanitizedId == sanitizeQueryParam(id)
      sanitizedName == sanitizeFileName(name)
      hit == sanitizedId \in DOMAIN files /\ files[sanitizedId].owner_id = u
  IN IF verdict /= "next" THEN Answer(Reply("renameFile", u, id, name, 403, verdict))
     ELSE IF ~isValidUUID(sanitizedId)
       THEN Answer(Reply("renameFile", u, id, name, 400, "Invalid file ID"))
     ELSE IF sanitizedName = ""
       THEN Answer(Reply("renameFile", u, id, name, 400, "Valid file name is required"))
     ELSE IF ~hit
       THEN Answer(Reply("renameFile", u, id, name, 500, sanitizeErrorMessage(ErrNoRows)))
     ELSE /\ files' = [files EXCEPT ![sanitizedId] = Touched([@ EXCEPT !.name = sanitizedName])]
          /\ UNCHANGED memory
          /\ resp' = Reply("renameFile", u, id, name, 200, "")
          /\ snap' = Null
          /\ calls' = <<>>
          /\ UNCHANGED <<folders, file_permissions, folder_permissions, storage,
                         nextFileId, nextFolderId, now>>

\* POST /:id/restore
RestoreFile(u, id) ==
  LET hit == FileRestoreRow(u, id)
  IN /\ snap' = IF snap /= Null /\ snap[1].kind \in {"file", "folder"} THEN snap ELSE Null
     /\ calls' = <<>>
     /\ UNCHANGED <<folders, file_permissions, folder_permissions, storage,
                    nextFileId, nextFolderId, now>>
     /\ IF ~hit
        THEN /\ UNCHANGED memory /\ resp' = Reply("restoreFile", u, id, "", 404, "File not found in trash")
             /\ UNCHANGED files
        ELSE /\ files' = [files EXCEPT ![id] = Touched([@ EXCEPT !.deleted_at = Null])]
             /\ UNCHANGED memory
             /\ resp' = Reply("restoreFile", u, id, "", 200, "")

\* file_permissions after the rows of file id are gone:
\* file_permissions.file_id REFERENCES files(id) ON DELETE CASCADE.
FilePermissionsCascade(id) ==
  [k \in {k \in DOMAIN file_permissions : k[1] /= id} |-> file_permissions[k]]

\* DELETE /:id/permanent.  rm, del: the outcomes of the object removal and of
\* the row deletion; rm may also be "throw": the awaited removal rejects and
\* the handler's catch block answers.
PurgeFile(u, id, rm, del) ==
  LET hit == FilePurgeRow(u, id)
      path == files[id].storage_path
  IN /\ snap' = Null
     /\ UNCHANGED <<folders, folder_permissions, nextFileId, nextFolderId, now>>
     /\ IF ~hit THEN
          /\ UNCHANGED memory
          /\ resp' = Reply("purgeFile", u, id, "", 404, "File not found in trash")
          /\ calls' = <<>>
          /\ UNCHANGED <<files, file_permissions, storage>>
        ELSE IF rm = "throw" THEN
          /\ UNCHANGED memory
          /\ resp' = Reply("purgeFile", u, id, "", 500, "Failed to permanently delete file")
          /\ calls' = << <<"storage.remove", path, rm>> >>
          /\ UNCHANGED <<files, file_permissions, storage>>
        ELSE
          /\ storage' = IF rm = "ok" THEN storage \ {path} ELSE storage
          /\ IF del = "error" THEN
               /\ UNCHANGED memory
               /\ resp' = Reply("purgeFile", u, id, "", 500, ErrDbDown)
               /\ calls' = << <<"storage.remove", path, rm>>,
                              <<"files.delete", path, ErrDbDown>> >>
               /\ UNCHANGED <<files, file_permissions>>
             ELSE
               \* file_permissions.file_id REFERENCES files(id) ON DELETE CASCADE
               /\ files' = [f \in DOMAIN files \ {id} |-> files[f]]
               /\ file_permissions' = FilePermissionsCascade(id)
               /\ UNCHANGED memory
               /\ resp' = Reply("purgeFile", u, id, "", 200, "")
               /\ calls' = << <<"storage.remove", path, rm>>,
                              <<"files.delete", path, "ok">> >>

\* An issue-link that sets the token and leaves the public flag, a revoke that
\* writes nothing, and a store that admits a token twice.
FileSharedTokenOnly(row, token) == Touched([row EXCEPT !.share_token = Some(token)])
FileUnsharedNothing(row) == Touched(row)
ShareTokenNeverTaken(id, token) == FALSE
\* An issue-link that keeps the token the file already has.
FileSharedKeepsToken(row, token) ==
  Touched([row EXCEPT !.share_token = IF @ = Null THEN Some(token) ELSE @,
                      !.is_public = TRUE])

\* The updates of POST /:id/share and DELETE /:id/share, with the updated_at
\* trigger.
FileShared(row, token) ==
  Touched([row EXCEPT !.share_token = Some(token), !.is_public = TRUE])
FileUnshared(row) ==
  Touched([row EXCEPT !.share_token = Null, !.is_public = FALSE])
\* files.share_token is UNIQUE: the update is refused when another row holds
\* the token.
ShareTokenTaken(id, token) ==
  \E f \in DOMAIN files \ {id} : files[f].share_token = Some(token)

\* POST /:id/share.  token: what uuidv4() returned.
ShareFile(u, id, token) ==
  LET verdict == checkFilePermission(id, u, "owner")
      hit == id \in DOMAIN files /\ files[id].owner_id = u
               /\ files[id].deleted_at = Null
      taken == ShareTokenTaken(id, token)
  IN IF verdict /= "next" THEN Answer(Reply("shareFile", u, id, "", 403, verdict))
     ELSE IF ~hit \/ taken
       THEN Answer(Reply("shareFile", u, id, "", 404, "File not found"))
     ELSE /\ files' = [files EXCEPT ![id] = FileShared(@, token)]
          /\ UNCHANGED memory
          /\ resp' = Reply("shareFile", u, id, token, 200, "")
          /\ snap' = IF files[id].share_token = Null THEN Null
                     ELSE Some([kind |-> "reissued", id |-> id, row |-> files[id]])
          /\ calls' = <<>>
          /\ UNCHANGED <<folders, file_permissions, folder_permissions, storage,
                         nextFileId, nextFolderId, now>>

\* DELETE /:id/share
UnshareFile(u, id) ==
  LET verdict == checkFilePermission(id, u, "owner")
      hit == id \in DOMAIN files /\ files[id].owner_id = u
  IN IF verdict /= "next" THEN Answer(Reply("unshareFile", u, id, "", 403, verdict))
     ELSE IF ~hit THEN Answer(Reply("unshareFile", u, id, "", 404, "File not found"))
     ELSE /\ files' = [files EXCEPT ![id] = FileUnshared(@)]
          /\ UNCHANGED memory
          /\ resp' = Reply("unshareFile", u, id, "", 200, "")
          /\ snap' = Some([kind |-> "revoked", id |-> id, row |-> files[id]])
          /\ calls' = <<>>
          /\ UNCHANGED <<folders, file_permissions, folder_permissions, storage,
                         nextFileId, nextFolderId, now>>

\* POST /:id/permissions.  email, permission: the body ("" when absent).
GrantFilePermission(u, id, email, permission) ==
  LET verdict == checkFilePermission(id, u, "owner")
      sanitizedId == sanitizeQueryParam(id)
      user == {v \in Users : EmailOf[v] = email}
      grantee == CHOOSE v \in user : TRUE
      \* upsert with no row id inserts; UNIQUE(file_id, user_id) and the
      \* reference to files(id) decide whether the insert goes through
      error == IF <<sanitizedId, grantee>> \in DOMAIN file_permissions THEN ErrUnique
               ELSE IF sanitizedId \notin DOMAIN files THEN ErrForeignKey ELSE ""
  IN IF verdict /= "next"
       THEN Answer(Reply("grantFilePermission", u, id, email, 403, verdict))
     ELSE IF ~isValidUUID(sanitizedId)
       THEN Answer(GrantReply("grantFilePermission", u, id, email, permission, 400, "Invalid file ID"))
     ELSE IF email = "" \/ permission \notin {"view", "edit"}
       THEN Answer(GrantReply("grantFilePermission", u, id, email, permission, 400,
                              "Valid email and permission (view/edit) required"))
     ELSE IF user = {}
       THEN Answer(GrantReply("grantFilePermission", u, id, email, permission, 404, "User not found"))
     ELSE IF error /= ""
       THEN Answer(GrantReply("grantFilePermission", u, id, email, permission, 500, error))
     ELSE /\ file_permissions' = file_permissions @@ (<<sanitizedId, grantee>> :> permission)
          /\ UNCHANGED memory
          /\ resp' = GrantReply("grantFilePermission", u, id, email, permission, 200, "")
          /\ snap' = Null
          /\ calls' = <<>>
          /\ UNCHANGED <<files, folders, folder_permissions, storage,
                         nextFileId, nextFolderId, now>>

\* DELETE /:id/permissions/:userId
RemoveFilePermission(u, id, userId) ==
  LET verdict == checkFilePermission(id, u, "owner")
      sanitizedId == sanitizeQueryParam(id)
      sanitizedUserId == sanitizeQueryParam(userId)
  IN IF verdict /= "next"
       THEN Answer(Reply("removeFilePermission", u, id, "", 403, verdict))
     ELSE IF ~isValidUUID(sanitizedId) \/ ~isValidUUID(sanitizedUserId)
       THEN Answer(Reply("removeFilePermission", u, id, "", 400, "Invalid file or user ID"))
     ELSE /\ file_permissions' =
               [k \in DOMAIN file_permissions \ {<<sanitizedId, sanitizedUserId>>}
                  |-> file_permissions[k]]
          /\ UNCHANGED memory
          /\ resp' = Reply("removeFilePermission", u, id, "", 200, "")
          /\ snap' = Null
          /\ calls' = <<>>
          /\ UNCHANGED <<files, folders, folder_permissions, storage,
                         nextFileId, nextFolderId, now>>

\* GET /:id/permissions
GetFilePermissions(u, id) ==
  LET verdict == checkFilePermission(id, u, "owner")
      sanitizedId == sanitizeQueryParam(id)
      rows == {v \in Users : <<sanitizedId, v>> \in DOMAIN file_permissions}
  IN IF verdict /= "next"
       THEN Answer(Reply("getFilePermissions", u, id, "", 403, verdict))
     ELSE IF ~isValidUUID(sanitizedId)
       THEN Answer(Reply("getFilePermissions", u, id, "", 400, "Invalid file ID"))
     ELSE Answer([Reply("getFilePermissions", u, id, "", 200, "") EXCEPT !.ids = rows])

\* GET /:id/download.  sign: the outcome of createSignedUrl.
DownloadFile(u, id, sign) ==
  LET verdict == checkFilePermission(id, u, "view")
      sanitizedId == sanitizeQueryParam(id)
      hit == sanitizedId \in DOMAIN files /\ files[sanitizedId].deleted_at = Null
  IN IF verdict /= "next" THEN Answer(Reply("downloadFile", u, id, "", 403, verdict))
     ELSE IF ~isValidUUID(sanitizedId)
       THEN Answer(Reply("downloadFile", u, id, "", 400, "Invalid file ID"))
     ELSE IF ~hit THEN Answer(Reply("downloadFile", u, id, "", 404, "File not found"))
     ELSE IF ~validateFilePath(files[sanitizedId].storage_path)
       THEN Answer(Reply("downloadFile", u, id, "", 400, "Invalid file path"))
     ELSE IF sign = "error"
       THEN Answer(Reply("downloadFile", u, id, "", 500, sanitizeErrorMessage(ErrStorageDown)))
     ELSE Answer([Reply("downloadFile", u, id, "", 200, "")
                    EXCEPT !.data = Some(files[sanitizedId].storage_path)])

\* The rows the anonymous routes select:
\* .eq('share_token', token).eq('is_public', true).is('deleted_at', null)
SharedRows(token) ==
  {f \in DOMAIN files : /\ files[f].share_token = Some(token)
                        /\ files[f].is_public
                        /\ files[f].deleted_at = Null}

\* The fields GET /shared/:token answers with.
SharedProjection(f) ==
  [id |-> f, name |-> files[f].name, size |-> files[f].size,
   format |-> files[f].format, path |-> files[f].path,
   created_at |-> files[f].created_at]

\* An anonymous request: only the response changes.
AnswerAnonymous(r) ==
  /\ UNCHANGED memory
  /\ resp' = r
  /\ calls' = <<>>
  /\ snap' = IF snap /= Null /\ snap[1].kind \in {"revoked", "reissued"} THEN snap ELSE Null
  /\ UNCHANGED <<tables, nextFileId, nextFolderId, now>>

\* GET /shared/:token (no authentication)
GetSharedFile(token) ==
  LET sanitizedToken == sanitizeQueryParam(token)
      rows == SharedRows(sanitizedToken)
      file == CHOOSE f \in rows : TRUE
  IN IF ~isValidUUID(sanitizedToken)
       THEN AnswerAnonymous(Reply("getSharedFile", "", "", token, 400, "Invalid share token"))
     ELSE IF Cardinality(rows) /= 1
       THEN AnswerAnonymous(Reply("getSharedFile", "", "", token, 404, "Shared file not found"))
     ELSE AnswerAnonymous([Reply("getSharedFile", "", "", token, 200, "")
                             EXCEPT !.data = Some(SharedProjection(file))])

\* A request to an authenticated route that carries no access token:
\* authenticateUser answers 401 before any other middleware or the handler.
Unauthenticated(op, id) ==
  AnswerAnonymous(Reply(op, "", id, "", 401, "Access token required"))

\* GET /shared/:token/download (no authentication).  sign: the outcome of
\* createSignedUrl.
DownloadSharedFile(token, sign) ==
  LET sanitizedToken == sanitizeQueryParam(token)
      rows == SharedRows(sanitizedToken)
      file == CHOOSE f \in rows : TRUE
  IN IF ~isValidUUID(sanitizedToken)
       THEN AnswerAnonymous(Reply("downloadSharedFile", "", "", token, 400, "Invalid share token"))
     ELSE IF Cardinality(rows) /= 1
       THEN AnswerAnonymous(Reply("downloadSharedFile", "", "", token, 404, "Shared file not found"))
     ELSE IF ~validateFilePath(files[file].storage_path)
       THEN AnswerAnonymous(Reply("downloadSharedFile", "", "", token, 400, "Invalid file path"))
     ELSE IF sign = "error"
       THEN AnswerAnonymous(Reply("downloadSharedFile", "", "", token, 500,
                         sanitizeErrorMessage(ErrStorageDown)))
     ELSE AnswerAnonymous([Reply("downloadSharedFile", "", "", token, 200, "")
                    EXCEPT !.data = Some(files[file].storage_path)])

\* ----------------------------------------------------- routes/folders.ts
\* The row POST / inserts; created_at and updated_at default to NOW().
NewFolderRow(u, name, parent) ==
  [name |-> name, owner_id |-> u, parent_id |-> parent,
   deleted_at |-> Null, created_at |-> now, updated_at |-> now]

\* POST / (create folder).  parentId: the body's parentId, "" when absent.
CreateFolder(u, name, parentId, ins) ==
  LET sanitizedName == sanitizeInput(name)
      id == FolderId(nextFolderId)
      parent == IF parentId = "" THEN Null ELSE Some(parentId)
      fkFails == parentId /= "" /\ parentId \notin DOMAIN folders
      \* UNIQUE(name, owner_id, parent_id): rows with a NULL parent_id never collide
      uniqueFails == /\ parent /= Null
                     /\ \E g \in DOMAIN folders :
                          /\ folders[g].name = sanitizedName
                          /\ folders[g].owner_id = u
                          /\ folders[g].parent_id = parent
      row == NewFolderRow(u, sanitizedName, parent)
  IN
  /\ snap' = Null
  /\ calls' = <<>>
  /\ UNCHANGED <<files, file_permissions, folder_permissions, storage, nextFileId, now>>
  /\ IF sanitizedName = "" THEN
       /\ UNCHANGED memory
       /\ resp' = Reply("createFolder", u, "", "", 400, "Folder name is required")
       /\ UNCHANGED <<folders, nextFolderId>>
     ELSE IF ins = "error" THEN
       /\ UNCHANGED memory
       /\ resp' = Reply("createFolder", u, "", "", 500, sanitizeErrorMessage(ErrDbDown))
       /\ UNCHANGED <<folders, nextFolderId>>
     ELSE IF fkFails THEN
       /\ UNCHANGED memory
       /\ resp' = Reply("createFolder", u, "", "", 500, sanitizeErrorMessage(ErrForeignKey))
       /\ nextFolderId' = nextFolderId + 1
       /\ UNCHANGED folders
     ELSE IF uniqueFails THEN
       /\ UNCHANGED memory
       /\ resp' = Reply("createFolder", u, "", "", 400, "Folder with this name already exists")
       /\ nextFolderId' = nextFolderId + 1
       /\ UNCHANGED folders
     ELSE
       /\ folders' = folders @@ (id :> row)
       /\ nextFolderId' = nextFolderId + 1
       /\ UNCHANGED memory
       /\ resp' = Reply("createFolder", u, id, "", 201, "")

\* A folder soft-delete that cascades to the folder's child folders.
FoldersSoftDeletedCascade(id) ==
  [g \in DOMAIN folders |->
     IF g = id \/ folders[g].parent_id = Some(id)
     THEN Touched([folders[g] EXCEPT !.deleted_at = Some(now)])
     ELSE folders[g]]

\* DELETE /:id: .eq('id').eq('owner_id').is('deleted_at', null)
FolderSoftDeleteRow(u, id) ==
  id \in DOMAIN folders /\ folders[id].owner_id = u /\ folders[id].deleted_at = Null
\* POST /:id/restore: .eq('id').eq('owner_id').not('deleted_at', 'is', null)
FolderRestoreRow(u, id) ==
  id \in DOMAIN folders /\ folders[id].owner_id = u /\ folders[id].deleted_at /= Null
\* The table after the update of DELETE /:id, with the updated_at trigger.
FoldersSoftDeleted(id) ==
  [folders EXCEPT ![id] = Touched([@ EXCEPT !.deleted_at = Some(now)])]

\* GET / (list folders)
ListFolders(u, parentId) ==
  LET sanitizedParentId == IF parentId /= "" THEN sanitizeQueryParam(parentId) ELSE ""
      inParent == sanitizedParentId /= "" /\ sanitizedParentId /= "null"
                    /\ isValidUUID(sanitizedParentId)
      rows == {g \in DOMAIN folders :
                 /\ folders[g].owner_id = u
                 /\ folders[g].deleted_at = Null
                 /\ IF inParent THEN folders[g].parent_id = Some(sanitizedParentId)
                    ELSE folders[g].parent_id = Null}
  IN Answer([Reply("listFolders", u, "", parentId, 200, "") EXCEPT !.ids = rows])

\* DELETE /:id (soft delete folder)
SoftDeleteFolder(u, id) ==
  LET verdict == checkFolderPermission(id, u, "owner")
      hit == FolderSoftDeleteRow(u, id)
  IN IF verdict /= "next" THEN Answer(Reply("softDeleteFolder", u, id, "", 403, verdict))
     ELSE IF ~hit THEN Answer(Reply("softDeleteFolder", u, id, "", 404, "Folder not found"))
     ELSE /\ folders' = FoldersSoftDeleted(id)
          /\ UNCHANGED memory
          /\ resp' = Reply("softDeleteFolder", u, id, "", 200, "")
          /\ snap' = Some([kind |-> "folder", id |-> id, row |-> folders[id]])
          /\ calls' = <<>>
          /\ UNCHANGED <<files, file_permissions, folder_permissions, storage,
                         nextFileId, nextFolderId, now>>

\* PUT /:id (rename folder)
RenameFolder(u, id, name) ==
  LET verdict == checkFolderPermission(id, u, "edit")
      sanitizedId == sanitizeQueryParam(id)
      sanitizedName == sanitizeInput(name)
      hit == sanitizedId \in DOMAIN folders /\ folders[sanitizedId].owner_id = u
      uniqueFails == /\ hit
                     /\ folders[sanitizedId].parent_id /= Null
                     /\ \E g \in DOMAIN folders \ {sanitizedId} :
                          /\ folders[g].name = sanitizedName
                          /\ folders[g].owner_id = u
                          /\ folders[g].parent_id = folders[sanitizedId].parent_id
  IN IF verdict /= "next" THEN Answer(Reply("renameFolder", u, id, name, 403, verdict))
     ELSE IF ~isValidUUID(sanitizedId)
       THEN Answer(Reply("renameFolder", u, id, name, 400, "Invalid folder ID"))
     ELSE IF sanitizedName = ""
       THEN Answer(Reply("renameFolder", u, id, name, 400, "Folder name is required"))
     ELSE IF uniqueFails
       THEN Answer(Reply("renameFolder", u, id, name, 400, "Folder with this name already exists"))
     ELSE IF ~hit
       THEN Answer(Reply("renameFolder", u, id, name, 500, sanitizeErrorMessage(ErrNoRows)))
     ELSE /\ folders' = [folders EXCEPT ![sanitizedId] = Touched([@ EXCEPT !.name = sanitizedName])]
          /\ UNCHANGED memory
          /\ resp' = Reply("renameFolder", u, id, name, 200, "")
          /\ snap' = Null
          /\ calls' = <<>>
          /\ UNCHANGED <<files, file_permissions, folder_permissions, storage,
                         nextFileId, nextFolderId, now>>

\* GET /trash (folders)
ListFolderTrash(u) ==
  LET rows == {g \in DOMAIN folders :
                 folders[g].owner_id = u /\ folders[g].deleted_at /= Null}
  IN Answer([Reply("listFolderTrash", u, "", "", 200, "") EXCEPT !.ids = rows])

\* POST /:id/restore (folder)
RestoreFolder(u, id) ==
  LET hit == FolderRestoreRow(u, id)
  IN /\ snap' = IF snap /= Null /\ snap[1].kind \in {"file", "folder"} THEN snap ELSE Null
     /\ calls' = <<>>
     /\ UNCHANGED <<files, file_permissions, folder_permissions, storage,
                    nextFileId, nextFolderId, now>>
     /\ IF ~hit
        THEN /\ UNCHANGED memory /\ resp' = Reply("restoreFolder", u, id, "", 404, "Folder not found in trash")
             /\ UNCHANGED folders
        ELSE /\ folders' = [folders EXCEPT ![id] = Touched([@ EXCEPT !.deleted_at = Null])]
             /\ UNCHANGED memory
             /\ resp' = Reply("restoreFolder", u, id, "", 200, "")

\* POST /:id/permissions (folder)
GrantFolderPermission(u, id, email, permission) ==
  LET verdict == checkFolderPermission(id, u, "owner")
      sanitizedId == sanitizeQueryParam(id)
      user == {v \in Users : EmailOf[v] = email}
      grantee == CHOOSE v \in user : TRUE
      error == IF <<sanitizedId, grantee>> \in DOMAIN folder_permissions THEN ErrUnique
               ELSE IF sanitizedId \notin DOMAIN folders THEN ErrForeignKey ELSE ""
  IN IF verdict /= "next"
       THEN Answer(Reply("grantFolderPermission", u, id, email, 403, verdict))
     ELSE IF ~isValidUUID(sanitizedId)
       THEN Answer(GrantReply("grantFolderPermission", u, id, email, permission, 400, "Invalid folder ID"))
     ELSE IF email = "" \/ permission \notin {"view", "edit"}
       THEN Answer(GrantReply("grantFolderPermission", u, id, email, permission, 400,
                              "Valid email and permission (view/edit) required"))
     ELSE IF user = {}
       THEN Answer(GrantReply("grantFolderPermission", u, id, email, permission, 404, "User not found"))
     ELSE IF error /= ""
       THEN Answer(GrantReply("grantFolderPermission", u, id, email, permission, 500, error))
     ELSE /\ folder_permissions' = folder_permissions @@ (<<sanitizedId, grantee>> :> permission)
          /\ UNCHANGED memory
          /\ resp' = GrantReply("grantFolderPermission", u, id, email, permission, 200, "")
          /\ snap' = Null
          /\ calls' = <<>>
          /\ UNCHANGED <<files, folders, file_permissions, storage,
                         nextFileId, nextFolderId, now>>

\* ------------------------------------------------------ routes/search.ts
\* validateInteger: the parsed number when it lies in min..max, else null.
\* value: Null for a parameter that is absent or no number.
validateInteger(value, min, max) ==
  IF value /= Null /\ value[1] >= min /\ (max = Null \/ value[1] <= max[1])
  THEN value ELSE Null

\* ts_rank(to_tsvector(name), plainto_tsquery(search_query)), 0 standing for a
\* name the query does not match (@@ is false): the name "a a" holds the word
\* of the query "a" twice, the name "a" once.
Rank(name, search_query) ==
  CASE search_query = "a" /\ name = "a" -> 1
    [] search_query = "a" /\ name = "a a" -> 2
    [] OTHER -> 0

\* The lists a query can return for the rows S under ORDER BY: every
\* arrangement of S in which no row stands after one that the relation
\* Precedes (pairs <<a, b>>: a sorts before b) puts behind it; rows the order
\* does not separate may come either way.
Orderings(S, Precedes) ==
  {l \in [1..Cardinality(S) -> S] :
     /\ \A i, j \in 1..Cardinality(S) : i /= j => l[i] /= l[j]
     /\ \A i, j \in 1..Cardinality(S) : i < j => <<l[j], l[i]>> \notin Precedes}

\* LIMIT page_limit OFFSET page_offset
LimitOffset(l, page_limit, page_offset) ==
  SubSeq(l, page_offset + 1,
         IF page_offset + page_limit < Len(l) THEN page_offset + page_limit ELSE Len(l))

\* A search whose visibility join takes every grant row for the caller's.
UserFilesAnyGrant(user_id) ==
  {f \in DOMAIN files :
     /\ files[f].deleted_at = Null
     /\ (files[f].owner_id = user_id
          \/ \E v \in Users : <<f, v>> \in DOMAIN file_permissions)}

\* The CTE user_files of search_files_paginated.
UserFiles(user_id) ==
  {f \in DOMAIN files :
     /\ files[f].deleted_at = Null
     /\ (files[f].owner_id = user_id \/ <<f, user_id>> \in DOMAIN file_permissions)}

\* search_files_paginated: the lists of file ids the function can return.
search_files_paginated(search_query, user_id, page_limit, page_offset) ==
  LET rows == {f \in UserFiles(user_id) : Rank(files[f].name, search_query) > 0}
      Precedes ==
        {r \in rows \X rows :
           \/ Rank(files[r[1]].name, search_query) > Rank(files[r[2]].name, search_query)
           \/ /\ Rank(files[r[1]].name, search_query) = Rank(files[r[2]].name, search_query)
              /\ files[r[1]].created_at > files[r[2]].created_at}
  IN {LimitOffset(l, page_limit, page_offset) : l \in Orderings(rows, Precedes)}

\* The rows of folders LEFT JOIN folder_permissions that pass the WHERE of
\* search_folders_paginated: <<folder, grantee>>, the grantee "" where the
\* folder has no grant row.
FolderJoinRows(search_query, user_id) ==
  {r \in (DOMAIN folders) \X (Users \cup {""}) :
     /\ IF r[2] = "" THEN \A v \in Users : <<r[1], v>> \notin DOMAIN folder_permissions
        ELSE <<r[1], r[2]>> \in DOMAIN folder_permissions
     /\ folders[r[1]].deleted_at = Null
     /\ (folders[r[1]].owner_id = user_id \/ r[2] = user_id)
     /\ Rank(folders[r[1]].name, search_query) > 0}

\* search_folders_paginated: the lists of folder ids the function can return,
\* one entry for every joined row.
search_folders_paginated(search_query, user_id, page_limit, page_offset) ==
  LET rows == FolderJoinRows(search_query, user_id)
      Precedes ==
        {r \in rows \X rows :
           \/ Rank(folders[r[1][1]].name, search_query) > Rank(folders[r[2][1]].name, search_query)
           \/ /\ Rank(folders[r[1][1]].name, search_query)
                = Rank(folders[r[2][1]].name, search_query)
              /\ folders[r[1][1]].created_at > folders[r[2][1]].created_at}
  IN {[i \in DOMAIN p |-> p[i][1]] :
        p \in {LimitOffset(l, page_limit, page_offset) : l \in Orderings(rows, Precedes)}}

\* GET /api/search.  q, type: query parameters ("" when absent); limit, page:
\* Null when absent or no number; rpcFiles, rpcFolders: the outcomes of the two
\* rpc calls, whose error the handler does not read.  calls lists the rpc
\* calls made.
BasicSearch(u, q, type, limit, page, rpcFiles, rpcFolders) ==
  LET searchQuery == sanitizeInput(q)
      sanitizedType == IF type = "" THEN "all" ELSE sanitizeInput(type)
      limited == validateInteger(limit, 1, Some(50))
      pageSize == IF limited = Null THEN 20 ELSE limited[1]
      paged == validateInteger(page, 1, Null)
      pageNum == IF paged = Null THEN 1 ELSE paged[1]
      offset == (pageNum - 1) * pageSize
      inFiles == sanitizedType \in {"all", "files"}
      inFolders == sanitizedType \in {"all", "folders"}
      fileLists == IF inFiles /\ rpcFiles = "ok"
                   THEN search_files_paginated(searchQuery, u, pageSize, offset)
                   ELSE {<<>>}
      folderLists == IF inFolders /\ rpcFolders = "ok"
                     THEN search_folders_paginated(searchQuery, u, pageSize, offset)
                     ELSE {<<>>}
  IN IF q = ""
       THEN Answer(Reply("search", u, "", q, 400, "Search query is required"))
     ELSE /\ UNCHANGED memory
          /\ \E fl \in fileLists, gl \in folderLists :
               resp' = [Reply("search", u, "", q, 200, "") EXCEPT
                          !.data = Some([query |-> sanitizeOutput(searchQuery),
                                         files |-> fl, folders |-> gl,
                                         pagination |->
                                           [page |-> pageNum, limit |-> pageSize,
                                            hasMore |-> Len(fl) + Len(gl) = pageSize]])]
          /\ calls' = (IF inFiles THEN <<<<"rpc", "search_files_paginated", rpcFiles>>>>
                       ELSE <<>>)
                      \o (IF inFolders
                          THEN <<<<"rpc", "search_folders_paginated", rpcFolders>>>>
                          ELSE <<>>)
          /\ snap' = Null
          /\ UNCHANGED <<tables, nextFileId, nextFolderId, now>>

\* The rows the advanced search query selects: the caller's own files that are
\* not trashed, whose name matches the query and that pass the filters the
\* handler applied.  A filter is applied when its sanitized value is truthy:
\* not '' for format and the dates, not null and not 0 for the sizes.
AdvancedRows(u, q, format, sizeMin, sizeMax, dateFrom, dateTo) ==
  {f \in DOMAIN files :
     /\ files[f].owner_id = u
     /\ files[f].deleted_at = Null
     /\ Rank(files[f].name, q) > 0
     /\ (format /= "" => files[f].format = format)
     /\ ((sizeMin /= Null /\ sizeMin[1] /= 0) => files[f].size >= sizeMin[1])
     /\ ((sizeMax /= Null /\ sizeMax[1] /= 0) => files[f].size <= sizeMax[1])
     /\ (dateFrom /= Null => files[f].created_at >= dateFrom[1])
     /\ (dateTo /= Null => files[f].created_at <= dateTo[1])}

\* .limit(50): the selected rows, or any 50 of them.
Limit50(rows) ==
  IF Cardinality(rows) <= 50 THEN {rows}
  ELSE {S \in SUBSET rows : Cardinality(S) = 50}

\* GET /api/search/advanced.  q, format: query parameters ("" when absent);
\* size_min, size_max: Null when absent or no number; date_from, date_to: Null
\* when absent, else a time (sanitizeQueryParam keeps a timestamp as it is);
\* sel: the outcome of the select.
AdvancedSearch(u, q, format, size_min, size_max, date_from, date_to, sel) ==
  LET sanitizedQuery == sanitizeInput(q)
      sanitizedFormat == sanitizeQueryParam(format)
      sanitizedSizeMin == validateInteger(size_min, 0, Null)
      sanitizedSizeMax == validateInteger(size_max, 0, Null)
      filters == [format |-> sanitizeOutput(sanitizedFormat),
                  size_min |-> sanitizedSizeMin, size_max |-> sanitizedSizeMax,
                  date_from |-> date_from, date_to |-> date_to]
  IN IF q = ""
       THEN Answer(Reply("advancedSearch", u, "", q, 400, "Search query is required"))
     ELSE IF sel = "error"
       THEN Answer(Reply("advancedSearch", u, "", q, 500, sanitizeErrorMessage(ErrDbDown)))
     ELSE \E results \in Limit50(AdvancedRows(u, q, sanitizedFormat, sanitizedSizeMin,
                                              sanitizedSizeMax, date_from, date_to)) :
            Answer([Reply("advancedSearch", u, "", q, 200, "") EXCEPT
                      !.ids = results,
                      !.data = Some([query |-> sanitizeOutput(sanitizedQuery),
                                     filters |-> filters])])

\* ------------------------------------------------------- the environment
\* A row of file_permissions written through the store itself (the tables are
\* shared with the project's SQL editor and earlier releases): any row the
\* table's constraints admit.
StoreFilePermission(id, v, permission) ==
  /\ id \in DOMAIN files
  /\ permission \in Levels
  /\ file_permissions' = [k \in DOMAIN file_permissions \cup {<<id, v>>} |->
                            IF k = <<id, v>> THEN permission ELSE file_permissions[k]]
  /\ UNCHANGED memory
  /\ resp' = NoResp
  /\ calls' = <<>>
  /\ snap' = Null
  /\ UNCHANGED <<files, folders, folder_permissions, storage, nextFileId, nextFolderId, now>>

StoreFolderPermission(id, v, permission) ==
  /\ id \in DOMAIN folders
  /\ permission \in Levels
  /\ folder_permissions' = [k \in DOMAIN folder_permissions \cup {<<id, v>>} |->
                              IF k = <<id, v>> THEN permission ELSE folder_permissions[k]]
  /\ UNCHANGED memory
  /\ resp' = NoResp
  /\ calls' = <<>>
  /\ snap' = Null
  /\ UNCHANGED <<files, folders, file_permissions, storage, nextFileId, nextFolderId, now>>

\* Time passes between two requests; no request is served in this step.
Tick ==
  /\ now' = now + 1
  /\ UNCHANGED memory
  /\ resp' = NoResp
  /\ calls' = <<>>
  /\ UNCHANGED <<tables, nextFileId, nextFolderId, snap>>

\* ------------------------------------------------------- middleware/csrf
\* A token is the string of its characters.  crypto.randomBytes(32)
\* .toString('hex') yields 64 characters of 0-9a-f.
HexDigits == {"0", "1", "2", "3", "4", "5", "6", "7", "8", "9",
              "a", "b", "c", "d", "e", "f"}
TokenLength == 64
TokenOf(c) == [i \in 1..TokenLength |-> c]
\* The sessions of the store and the token /csrf-token draws for each.
Sessions == {"s1", "s2"}
TokenA == TokenOf("a")
TokenB == TokenOf("b")
generateCSRFToken(s) == IF s = "s1" THEN TokenA ELSE TokenB
\* A well-formed token the endpoint has issued to nobody, and a value the
\* format test refuses.
TokenForged == TokenOf("f")
TokenShort == <<"a", "b">>
\* An x-csrf-token header: absent (Null) or one of the tokens above.
TokenHeaders == {Null, Some(TokenA), Some(TokenForged), Some(TokenShort)}
\* An Authorization header: absent, or <<scheme, credential>>; the credential
\* is the access token of a user and stands for its verified userId.
AuthHeaders == {Null, Some(<<"Bearer", "u1">>), Some(<<"Token", "u1">>)}

NoSessions == [s \in Sessions |-> Null]
NoRoute == [router |-> "", method |-> "", path |-> <<>>]
NoRequest == [route |-> NoRoute, csrfToken |-> Null, authorization |-> Null,
              cookie |-> "s1"]

\* /^[a-f0-9]{64}$/.test(csrfToken)
IsTokenFormat(csrfToken) ==
  /\ Len(csrfToken) = TokenLength
  /\ \A i \in 1..Len(csrfToken) : csrfToken[i] \in HexDigits

\* req.path.includes('/' + word): the path is the sequence of its segments,
\* relative to the router the route belongs to ('/' is the empty sequence);
\* the segments of the guarded routes are matched whole.
PathIncludes(path, word) == \E i \in 1..Len(path) : path[i] = word

\* !value of a header: absent or the empty string.
Falsy(header) == header = Null \/ header[1] = <<>>

\* csrfProtection: "next" when the request goes on to the next middleware,
\* the error of the 403 response otherwise.
csrfProtection(method, path, csrfToken, authHeader, sessionToken) ==
  IF /\ method \in {"GET", "HEAD", "OPTIONS"}
     /\ ~PathIncludes(path, "permissions")
     /\ ~PathIncludes(path, "share")
     /\ ~PathIncludes(path, "download")
    THEN "next"
  ELSE IF path = <<>> \/ path = <<"health">> \/ path = <<"csrf-token">>
    THEN "next"
  ELSE IF authHeader /= Null /\ authHeader[1][1] = "Bearer"
    THEN IF Falsy(csrfToken)
           THEN "CSRF token required for state-changing operations"
         ELSE IF ~IsTokenFormat(csrfToken[1])
           THEN "Invalid CSRF token format"
         ELSE "next"
  ELSE IF Falsy(csrfToken) \/ sessionToken = Null \/ csrfToken /= sessionToken
    THEN "Invalid or missing CSRF token"
  ELSE "next"

\* GET /csrf-token: a fresh token is stored in the caller's session and sent.
GetCsrfToken(s) ==
  LET token == generateCSRFToken(s)
  IN /\ session' = [session EXCEPT ![s] = Some(token)]
     /\ UNCHANGED <<tables, nextFileId, nextFolderId, now, resp, calls, snap, request,
                    limiter, inflight>>

\* A request reaches the server with its headers and its session cookie; it
\* has no response yet.
Arrive(r) ==
  /\ request' = r
  /\ resp' = NoResp
  /\ calls' = <<>>
  /\ UNCHANGED <<tables, nextFileId, nextFolderId, now, snap, session, limiter,
                 inflight>>

\* The routes that name csrfProtection, each with the path its router sees.
FileRoute(method, path) == [router |-> "files", method |-> method, path |-> path]
FolderRoute(method, path) == [router |-> "folders", method |-> method, path |-> path]
GuardedRoutes ==
  {FileRoute("POST", <<"upload">>),
   FileRoute("DELETE", <<FileId(1)>>),
   FileRoute("PUT", <<FileId(1)>>),
   FileRoute("POST", <<FileId(1), "restore">>),
   FileRoute("DELETE", <<FileId(1), "permanent">>),
   FileRoute("POST", <<FileId(1), "share">>),
   FileRoute("DELETE", <<FileId(1), "share">>),
   FileRoute("POST", <<FileId(1), "permissions">>),
   FileRoute("DELETE", <<FileId(1), "permissions", "u2">>),
   FileRoute("GET", <<FileId(1), "permissions">>),
   FolderRoute("POST", <<>>)}

\* The handler of a guarded route, behind authenticateUser.
Handle(route, u) ==
  \/ /\ route = FileRoute("POST", <<"upload">>)
     /\ Upload(u, TRUE, "a", 10, "application/pdf", "", "ok", "ok", "ok", "ok")
  \/ /\ route = FileRoute("DELETE", <<FileId(1)>>)
     /\ SoftDeleteFile(u, FileId(1))
  \/ /\ route = FileRoute("PUT", <<FileId(1)>>)
     /\ RenameFile(u, FileId(1), "b")
  \/ /\ route = FileRoute("POST", <<FileId(1), "restore">>)
     /\ RestoreFile(u, FileId(1))
  \/ /\ route = FileRoute("DELETE", <<FileId(1), "permanent">>)
     /\ PurgeFile(u, FileId(1), "ok", "ok")
  \/ /\ route = FileRoute("POST", <<FileId(1), "share">>)
     /\ ShareFile(u, FileId(1), "t1")
  \/ /\ route = FileRoute("DELETE", <<FileId(1), "share">>)
     /\ UnshareFile(u, FileId(1))
  \/ /\ route = FileRoute("POST", <<FileId(1), "permissions">>)
     /\ GrantFilePermission(u, FileId(1), "u2", "view")
  \/ /\ route = FileRoute("DELETE", <<FileId(1), "permissions", "u2">>)
     /\ RemoveFilePermission(u, FileId(1), "u2")
  \/ /\ route = FileRoute("GET", <<FileId(1), "permissions">>)
     /\ GetFilePermissions(u, FileId(1))
  \/ /\ route = FolderRoute("POST", <<>>)
     /\ CreateFolder(u, "R", "", "ok")

\* The request that has no response yet passes the middleware chain of its
\* route: csrfProtection, then authenticateUser, then the handler.
Serve ==
  LET route == request.route
      verdict == csrfProtection(route.method, route.path, request.csrfToken,
                                request.authorization, session[request.cookie])
  IN /\ request /= NoRequest
     /\ resp = NoResp
     /\ IF verdict /= "next"
          THEN Answer(Reply("csrfProtection", "", "", "", 403, verdict))
        ELSE IF request.authorization = Null
          THEN Unauthenticated("authenticateUser", "")
        ELSE Handle(route, request.authorization[1][2])

\* ------------------------------------------------- middleware/validation
\* userRateLimit(10, 60000) of POST /upload.
UploadMaxRequests == 10
UploadWindowMs == 60000

NoRequests == [u \in Users |-> Null]
NoneAdmitted == [u \in Users |-> <<>>]

\* A request that passed its middleware and whose handler has not answered.
Pending(op, u) == [NoResp EXCEPT !.op = op, !.caller = u]
HandlerPending == resp /= NoResp /\ resp.status = 0

\* const userId = req.userId || req.ip || 'anonymous': the routes run
\* authenticateUser first, so req.userId is set.
userRateLimitKey(userId) == userId

\* userRateLimit(maxRequests, windowMs) in front of a handler of route op,
\* called with req.userId = u: a new window when the user has no entry or the
\* entry's resetTime is passed, 429 when the window is full, count++ otherwise.
userRateLimit(maxRequests, windowMs, op, u) ==
  LET userId == userRateLimitKey(u)
      userRequests == requests[userId]
  IN /\ ~HandlerPending
     /\ IF userRequests = Null \/ now > userRequests[1].resetTime
          THEN /\ requests' = [requests EXCEPT
                                 ![userId] = Some([count |-> 1,
                                                   resetTime |-> now + windowMs])]
               /\ admitted' = [admitted EXCEPT ![u] = Append(@, now)]
               /\ resp' = Pending(op, u)
        ELSE IF userRequests[1].count >= maxRequests
          THEN /\ resp' = [Reply(op, u, "", "", 429,
                                 "Too many requests. Please try again later.")
                             EXCEPT !.data = Some((userRequests[1].resetTime - now
                                                     + 999) \div 1000)]
               /\ UNCHANGED limiter
        ELSE /\ requests' = [requests EXCEPT ![userId][1].count = @ + 1]
             /\ admitted' = [admitted EXCEPT ![u] = Append(@, now)]
             /\ resp' = Pending(op, u)
     /\ calls' = <<>>
     /\ UNCHANGED <<tables, nextFileId, nextFolderId, now, snap, csrf, inflight>>

\* Time passes on the server's clock.
Elapse(ms) ==
  /\ ~HandlerPending
  /\ now' = now + ms
  /\ UNCHANGED <<tables, nextFileId, nextFolderId, resp, calls, snap, memory>>

\* ------------------------------------------------- concurrent requests
\* Each await of a handler is a step; the statements of the store (one
\* select, update or delete) and of the bucket are atomic.
MaxConcurrent == 2
Slots == 1..MaxConcurrent
NoInflight == [k \in Slots |-> Null]

\* The handler in slot k stands before step pc of route op.
At(k, op, pc) == inflight[k] /= Null /\ inflight[k][1].op = op /\ inflight[k][1].pc = pc
\* The response of the handler in slot k, kept until the client takes it.
Done(k, r) == [inflight EXCEPT ![k] = Some([op |-> r.op, pc |-> "done", resp |-> r])]

\* The client of slot k has received its response.
Forget(k) ==
  /\ inflight[k] /= Null
  /\ inflight[k][1].pc = "done"
  /\ inflight' = [inflight EXCEPT ![k] = Null]
  /\ UNCHANGED <<tables, nextFileId, nextFolderId, now, resp, calls, snap, csrf, limiter>>

\* DELETE /:id/permanent, first await: the select of the Trashed row.
PurgeFetch(k, u, id) ==
  /\ inflight[k] = Null
  /\ inflight' =
       IF ~FilePurgeRow(u, id)
         THEN Done(k, Reply("purgeFile", u, id, "", 404, "File not found in trash"))
       ELSE [inflight EXCEPT ![k] =
               Some([op |-> "purgeFile", pc |-> "remove", u |-> u, id |-> id,
                     storage_path |-> files[id].storage_path])]
  /\ UNCHANGED <<tables, nextFileId, nextFolderId, now, resp, calls, snap, csrf, limiter>>

\* DELETE /:id/permanent, second await: storage.remove([file.storage_path]).
PurgeRemove(k, rm) ==
  LET h == inflight[k][1]
  IN /\ At(k, "purgeFile", "remove")
     /\ storage' = IF rm = "ok" THEN storage \ {h.storage_path} ELSE storage
     /\ inflight' =
          IF rm = "throw"
            THEN Done(k, Reply("purgeFile", h.u, h.id, "", 500,
                               "Failed to permanently delete file"))
          ELSE [inflight EXCEPT ![k][1].pc = "delete"]
     /\ UNCHANGED <<files, folders, file_permissions, folder_permissions,
                    nextFileId, nextFolderId, now, resp, calls, snap, csrf, limiter>>

\* DELETE /:id/permanent, third await: delete().eq('id').eq('owner_id'), which
\* does not look at deleted_at; no matching row is no error.
PurgeDelete(k, del) ==
  LET h == inflight[k][1]
      hit == h.id \in DOMAIN files /\ files[h.id].owner_id = h.u
  IN /\ At(k, "purgeFile", "delete")
     /\ IF del = "error"
          THEN /\ inflight' = Done(k, Reply("purgeFile", h.u, h.id, "", 500, ErrDbDown))
               /\ UNCHANGED <<files, file_permissions>>
        ELSE /\ files' = IF hit THEN [f \in DOMAIN files \ {h.id} |-> files[f]] ELSE files
             /\ file_permissions' = IF hit THEN FilePermissionsCascade(h.id)
                                    ELSE file_permissions
             /\ inflight' = Done(k, Reply("purgeFile", h.u, h.id, "", 200, ""))
     /\ UNCHANGED <<folders, folder_permissions, storage, nextFileId, nextFolderId,
                    now, resp, calls, snap, csrf, limiter>>

\* The soft-delete and restore routes of files and folders as concurrent
\* requests.  A request is sent once its middleware has passed and the handler
\* has built the update (the timestamp of a soft-delete is the handler's
\* new Date()); the store then executes the update as one statement.  ready:
\* the resource was the caller's and in the state the update asks for
\* (Active for a soft-delete, Trashed for a restore) when the request was sent.
TrashOp(kind) == IF kind = "file" THEN "softDeleteFile" ELSE "softDeleteFolder"
RestoreOp(kind) == IF kind = "file" THEN "restoreFile" ELSE "restoreFolder"
FirstId(kind) == IF kind = "file" THEN FileId(1) ELSE FolderId(1)
SoftDeleteRow(kind, u, id) ==
  IF kind = "file" THEN FileSoftDeleteRow(u, id) ELSE FolderSoftDeleteRow(u, id)
RestoreRow(kind, u, id) ==
  IF kind = "file" THEN FileRestoreRow(u, id) ELSE FolderRestoreRow(u, id)
Holds(op) == \E k \in Slots : inflight[k] /= Null /\ inflight[k][1].op = op
Sent(k, op, kind, u, id, ready) ==
  [inflight EXCEPT ![k] = Some([op |-> op, pc |-> "update", kind |-> kind, u |-> u,
                                id |-> id, at |-> now, ready |-> ready])]
Answered(k, r) ==
  [inflight EXCEPT ![k] = Some([inflight[k][1] EXCEPT !.pc = "done"] @@ [resp |-> r])]

\* DELETE /:id of files and folders: checkFilePermission('owner') or
\* checkFolderPermission('owner'), then the handler sends its update.
SoftDeleteSend(k, kind, u, id) ==
  LET op == TrashOp(kind)
      verdict == IF kind = "file" THEN checkFilePermission(id, u, "owner")
                 ELSE checkFolderPermission(id, u, "owner")
  IN /\ inflight[k] = Null
     /\ ~Holds(RestoreOp("file")) /\ ~Holds(RestoreOp("folder"))
     /\ inflight' =
          IF verdict /= "next"
            THEN [inflight EXCEPT ![k] =
                    Some([op |-> op, pc |-> "done", kind |-> kind, u |-> u, id |-> id,
                          at |-> now, ready |-> FALSE,
                          resp |-> Reply(op, u, id, "", 403, verdict)])]
          ELSE Sent(k, op, kind, u, id, SoftDeleteRow(kind, u, id))
     /\ UNCHANGED <<tables, nextFileId, nextFolderId, now, resp, calls, snap, csrf, limiter>>

\* The store executes update({ deleted_at }).eq('id').eq('owner_id')
\* .is('deleted_at', null).select().single() and the handler answers.
SoftDeleteApply(k) ==
  LET h == inflight[k][1]
      hit == SoftDeleteRow(h.kind, h.u, h.id)
      written(row) == [row EXCEPT !.deleted_at = Some(h.at), !.updated_at = now]
  IN /\ inflight[k] /= Null
     /\ h.op \in {TrashOp("file"), TrashOp("folder")}
     /\ h.pc = "update"
     /\ files' = IF hit /\ h.kind = "file"
                   THEN [files EXCEPT ![h.id] = written(@)] ELSE files
     /\ folders' = IF hit /\ h.kind = "folder"
                     THEN [folders EXCEPT ![h.id] = written(@)] ELSE folders
     /\ inflight' =
          IF hit THEN Answered(k, Reply(h.op, h.u, h.id, "", 200, ""))
          ELSE Answered(k, Reply(h.op, h.u, h.id, "", 404,
                                 IF h.kind = "file" THEN "File not found"
                                 ELSE "Folder not found"))
     /\ UNCHANGED <<file_permissions, folder_permissions, storage, nextFileId,
                    nextFolderId, now, resp, calls, snap, csrf, limiter>>

\* POST /:id/restore of files and folders: the handler sends its update.
RestoreSend(k, kind, u, id) ==
  /\ inflight[k] = Null
  /\ ~Holds(TrashOp("file")) /\ ~Holds(TrashOp("folder"))
  /\ inflight' = Sent(k, RestoreOp(kind), kind, u, id, RestoreRow(kind, u, id))
  /\ UNCHANGED <<tables, nextFileId, nextFolderId, now, resp, calls, snap, csrf, limiter>>

\* The store executes update({ deleted_at: null }).eq('id').eq('owner_id')
\* .not('deleted_at', 'is', null).select().single() and the handler answers.
RestoreApply(k) ==
  LET h == inflight[k][1]
      hit == RestoreRow(h.kind, h.u, h.id)
      written(row) == [row EXCEPT !.deleted_at = Null, !.updated_at = now]
  IN /\ inflight[k] /= Null
     /\ h.op \in {RestoreOp("file"), RestoreOp("folder")}
     /\ h.pc = "update"
     /\ files' = IF hit /\ h.kind = "file"
                   THEN [files EXCEPT ![h.id] = written(@)] ELSE files
     /\ folders' = IF hit /\ h.kind = "folder"
                     THEN [folders EXCEPT ![h.id] = written(@)] ELSE folders
     /\ inflight' =
          IF hit THEN Answered(k, Reply(h.op, h.u, h.id, "", 200, ""))
          ELSE Answered(k, Reply(h.op, h.u, h.id, "", 404,
                                 IF h.kind = "file" THEN "File not found in trash"
                                 ELSE "Folder not found in trash"))
     /\ UNCHANGED <<file_permissions, folder_permissions, storage, nextFileId,
                    nextFolderId, now, resp, calls, snap, csrf, limiter>>

\* The clients of a batch of concurrent requests have all been answered.
ForgetAll ==
  /\ inflight /= NoInflight
  /\ \A k \in Slots : IF inflight[k] = Null THEN TRUE ELSE inflight[k][1].pc = "done"
  /\ inflight' = NoInflight
  /\ UNCHANGED <<tables, nextFileId, nextFolderId, now, resp, calls, snap, csrf, limiter>>

InitMemory ==
  /\ session = NoSessions
  /\ request = NoRequest
  /\ requests = NoRequests
  /\ admitted = NoneAdmitted
  /\ inflight = NoInflight

\* ------------------------------------------------- middleware/auth, routes/auth
\* jwt.sign({ userId }, JWT_SECRET, { expiresIn: '7d' }): the token carries the
\* user, the second it was issued at and whether JWT_SECRET signed it.
TokenLifetimeS == 604800
AccessToken(u) == [userId |-> u, iat |-> 0, signed |-> TRUE]
ForgedToken == [userId |-> "u1", iat |-> 0, signed |-> FALSE]
\* The Authorization headers of the clients: none, the token a user obtained
\* at sign-in, a token another secret signed.
BearerHeaders ==
  {Null, Some(<<"Bearer", ForgedToken>>)}
    \cup {Some(<<"Bearer", AccessToken(u)>>) : u \in Users}

\* jwt.verify(token, JWT_SECRET): the signature and the expiry, nothing else.
JwtVerify(token) ==
  /\ token.signed
  /\ now \div 1000 < token.iat + TokenLifetimeS

\* authenticateUser: status 0 and req.userId when next() is called.
authenticateUser(authHeader) ==
  IF authHeader = Null
    THEN [status |-> 401, error |-> "Access token required", userId |-> ""]
  ELSE IF ~JwtVerify(authHeader[1][2])
    THEN [status |-> 403, error |-> "Invalid token", userId |-> ""]
  ELSE [status |-> 0, error |-> "", userId |-> authHeader[1][2].userId]

\* The answer of authenticateUser to a request it stops.
Refuse(op, auth) == AnswerAnonymous(Reply(op, "", "", "", auth.status, auth.error))

\* POST /auth/logout
Logout(authHeader) ==
  LET auth == authenticateUser(authHeader)
  IN IF auth.status /= 0
       THEN Refuse("logout", auth)
     ELSE Answer([Reply("logout", auth.userId, "", "", 200, "")
                    EXCEPT !.data = Some("Logged out successfully")])

\* ------------------------------------------------------- specifications
Empty == [k \in {} |-> Null]

\* The tables of a fresh deployment.
Init ==
  /\ files = Empty
  /\ folders = Empty
  /\ file_permissions = Empty
  /\ folder_permissions = Empty
  /\ storage = {}
  /\ nextFileId = 1
  /\ nextFolderId = 1
  /\ now = 0
  /\ resp = NoResp
  /\ calls = <<>>
  /\ snap = Null
  /\ InitMemory

Outcomes == {"ok", "error"}

\* Access control: the file and folder routes called by an owner (u1 creates
\* every resource) and by another user (u2), with delegated grants present.
\* All requests arrive within one tick of the clock.
Next ==
  \/ /\ nextFileId <= MaxFiles
     /\ \E name \in {"a", NoName}, put, ins, rm \in Outcomes :
          Upload("u1", TRUE, name, 10, "application/pdf", "", put, ins, rm, "ok")
  \/ \E u \in Users, id \in FileIds : SoftDeleteFile(u, id)
  \/ \E u \in Users, id \in FileIds \cup {UuidParam} : RenameFile(u, id, "b")
  \/ \E u \in Users, id \in FileIds : RestoreFile(u, id)
  \/ \E u \in Users, id \in FileIds : PurgeFile(u, id, "ok", "ok")
  \/ \E u \in Users, id \in FileIds : ShareFile(u, id, "t1")
  \/ \E u \in Users, id \in FileIds : UnshareFile(u, id)
  \/ \E u \in Users, id \in FileIds : GrantFilePermission(u, id, "u2", "view")
  \/ \E u \in Users, id \in FileIds : RemoveFilePermission(u, id, "u2")
  \/ \E u \in Users, id \in FileIds : GetFilePermissions(u, id)
  \/ \E u \in Users, id \in FileIds \cup {UuidParam} : DownloadFile(u, id, "ok")
  \/ /\ nextFolderId <= MaxFolders
     /\ CreateFolder("u1", "R", "", "ok")
  \/ \E u \in Users, id \in FolderIds : SoftDeleteFolder(u, id)
  \/ \E u \in Users, id \in FolderIds : RenameFolder(u, id, "S")
  \/ \E u \in Users, id \in FolderIds : RestoreFolder(u, id)
  \/ \E u \in Users, id \in FolderIds : GrantFolderPermission(u, id, "u2", "view")
  \/ \E id \in FileIds, p \in {"view", "edit"} : StoreFilePermission(id, "u2", p)
  \/ \E id \in FolderIds, p \in {"view", "edit"} : StoreFolderPermission(id, "u2", p)

Spec == Init /\ [][Next]_vars

\* The permission middleware over every state of the grant tables: one file
\* and one folder exist, each owned by either user, and each grant table holds
\* any rows its constraints admit, rows for the owner included.
GrantTables(id) == UNION {[K -> Levels] : K \in SUBSET ({id} \X Users)}

InitAuthorize ==
  /\ now = 0
  /\ files \in {FileId(1) :> NewFileRow(o, "a", 10, "application/pdf", "", <<o, 0, "a">>) :
                  o \in Users}
  /\ folders \in {FolderId(1) :> NewFolderRow(o, "R", Null) : o \in Users}
  /\ file_permissions \in GrantTables(FileId(1))
  /\ folder_permissions \in GrantTables(FolderId(1))
  /\ storage = {files[FileId(1)].storage_path}
  /\ nextFileId = 2
  /\ nextFolderId = 2
  /\ resp = NoResp
  /\ calls = <<>>
  /\ snap = Null
  /\ InitMemory

NextAuthorize ==
  \/ \E u \in Users, L \in Levels : RunCheckFilePermission(u, FileId(1), L)
  \/ \E u \in Users, L \in Levels : RunCheckFolderPermission(u, FolderId(1), L)

SpecAuthorize == InitAuthorize /\ [][NextAuthorize]_vars

\* The trash lifecycle under a running clock: u1 creates files and folders at
\* time 0, then soft-deletes, restores and shares them while time passes.
NextClock ==
  \/ /\ nextFileId <= MaxFiles
     /\ now = 0
     /\ Upload("u1", TRUE, "a", 10, "application/pdf", "", "ok", "ok", "ok", "ok")
  \/ \E id \in FileIds : SoftDeleteFile("u1", id)
  \/ \E id \in FileIds : RestoreFile("u1", id)
  \/ \E id \in FileIds : ShareFile("u1", id, "t1")
  \/ /\ nextFolderId <= MaxFolders
     /\ now = 0
     /\ CreateFolder("u1", "R", "", "ok")
  \/ \E id \in FolderIds : SoftDeleteFolder("u1", id)
  \/ \E id \in FolderIds : RestoreFolder("u1", id)
  \/ /\ now < MaxTime
     /\ Tick

SpecClock == Init /\ [][NextClock]_vars

\* The folder tree and the listings: u1 builds folders inside folders and
\* uploads into them, u2 holds grants on u1's files, both list.
TreeFolderIds == {FolderId(n) : n \in 1..MaxTreeFolders}

NextTree ==
  \/ /\ nextFolderId <= MaxTreeFolders
     /\ \E parentId \in {""} \cup (DOMAIN folders \cap {FolderId(1)}) :
          CreateFolder("u1", "R", parentId, "ok")
  \/ /\ nextFileId <= MaxFiles
     /\ \E folderId \in {""} \cup (DOMAIN folders \cap {FolderId(1)}) :
          Upload("u1", TRUE, "a", 10, "application/pdf", folderId, "ok", "ok", "ok", "ok")
  \/ \E id \in TreeFolderIds : SoftDeleteFolder("u1", id)
  \/ \E id \in TreeFolderIds : RestoreFolder("u1", id)
  \/ \E id \in FileIds : SoftDeleteFile("u1", id)
  \/ \E id \in FileIds : RestoreFile("u1", id)
  \/ \E u \in Users, folderId \in {"", FolderId(1)} : ListFiles(u, folderId, Null)
  \/ \E u \in Users : ListTrash(u)
  \/ \E id \in FileIds : StoreFilePermission(id, "u2", "view")

SpecTree == Init /\ [][NextTree]_vars

\* Uploads and their bookkeeping: either user uploads while the collaborators
\* fail in every way they can, the owner grant's write included.
PermOutcomes == {"ok", "error", "throw"}

NextUpload ==
  \/ /\ nextFileId <= MaxFiles
     /\ \E u \in Users, hasFile \in BOOLEAN, name \in {"a", "a/", NoName},
           format \in {"application/pdf", "application/x-sh"},
           put, ins, rm \in Outcomes, perm \in PermOutcomes :
          Upload(u, hasFile, name, 10, format, "", put, ins, rm, perm)
  \/ \E u \in Users : ListFiles(u, "", Null)
  \/ /\ now < MaxTime
     /\ Tick

SpecUpload == Init /\ [][NextUpload]_vars

\* Share links: u1 uploads files, issues and revokes their links and moves
\* them through the trash, while anonymous clients present tokens.
SharedFileIds == {FileId(n) : n \in 1..MaxSharedFiles}
\* A token parameter that is no UUID.
BadToken == "x"

NextShare ==
  \/ /\ nextFileId <= MaxSharedFiles
     /\ \E name \in {"a", "a~"} :
          Upload("u1", TRUE, name, 10, "application/pdf", "", "ok", "ok", "ok", "ok")
  \/ \E id \in SharedFileIds, token \in Tokens : ShareFile("u1", id, token)
  \/ \E id \in SharedFileIds : UnshareFile("u1", id)
  \/ \E id \in SharedFileIds : SoftDeleteFile("u1", id)
  \/ \E id \in SharedFileIds : RestoreFile("u1", id)
  \/ \E id \in SharedFileIds : RenameFile("u1", id, "b")
  \/ \E token \in Tokens \cup {BadToken} : GetSharedFile(token)
  \/ \E token \in Tokens \cup {BadToken}, sign \in Outcomes : DownloadSharedFile(token, sign)
  \/ \E id \in SharedFileIds : Unauthenticated("downloadFile", id)

SpecShare == Init /\ [][NextShare]_vars

\* Purge: u1 uploads a file, grants and a share link are put on it, it is
\* trashed, restored and purged, and both users and anonymous callers try to
\* reach it.
RemoveOutcomes == {"ok", "error", "throw"}

NextPurge ==
  \/ /\ nextFileId <= MaxFiles
     /\ Upload("u1", TRUE, "a", 10, "application/pdf", "", "ok", "ok", "ok", "ok")
  \/ \E id \in FileIds : StoreFilePermission(id, "u2", "edit")
  \/ \E id \in FileIds : ShareFile("u1", id, "t1")
  \/ \E id \in FileIds : SoftDeleteFile("u1", id)
  \/ \E u \in Users, id \in FileIds, rm \in RemoveOutcomes, del \in Outcomes :
       PurgeFile(u, id, rm, del)
  \/ \E u \in Users, id \in FileIds : RestoreFile(u, id)
  \/ \E u \in Users, id \in FileIds : DownloadFile(u, id, "ok")
  \/ \E u \in Users, id \in FileIds : RenameFile(u, id, "b")
  \/ \E u \in Users, id \in FileIds : GetFilePermissions(u, id)
  \/ GetSharedFile("t1")
  \/ DownloadSharedFile("t1", "ok")
  \/ \E u \in Users : ListFiles(u, "", Null)
  \/ \E u \in Users : ListTrash(u)
  \/ \E u \in Users : BasicSearch(u, "a", "", Null, Null, "ok", "ok")

SpecPurge == Init /\ [][NextPurge]_vars

\* Search: u1 uploads files and creates a folder whose names hold the word
\* "a", grants on the first file and on the folder reach either user, the
\* first file and the folder are trashed, time passes between the uploads, and
\* both users search.

NextSearch ==
  \/ /\ nextFileId <= MaxSearchFiles
     /\ \E name \in {"a", "a a"} :
          Upload("u1", TRUE, name, 10, "application/pdf", "", "ok", "ok", "ok", "ok")
  \/ SoftDeleteFile("u1", FileId(1))
  \/ StoreFilePermission(FileId(1), "u2", "view")
  \/ /\ nextFolderId = 1
     /\ CreateFolder("u1", "a", "", "ok")
  \/ SoftDeleteFolder("u1", FolderId(1))
  \/ \E v \in Users : StoreFolderPermission(FolderId(1), v, "view")
  \/ \E u \in Users, type \in {"", "files"},
        limit \in {Null, Some(1)}, page \in {Null, Some(2)} :
       BasicSearch(u, "a", type, limit, page, "ok", "ok")
  \/ \E u \in Users : BasicSearch(u, "", "", Null, Null, "ok", "ok")
  \/ \E u \in Users : BasicSearch(u, "a", "", Null, Null, "error", "error")
  \/ /\ now < MaxTime
     /\ DOMAIN files /= {}
     /\ nextFileId <= MaxSearchFiles
     /\ DOMAIN folders = {}
     /\ Tick

SpecSearch == Init /\ [][NextSearch]_vars

\* Advanced search: u1 uploads files of two formats and sizes, they are
\* granted to u2 and trashed, time passes before the uploads, and both users
\* search with filters.
NextAdvanced ==
  \/ /\ nextFileId <= MaxFiles
     /\ \E size \in {5, 10}, format \in AllowedTypes :
          Upload("u1", TRUE, "a", size, format, "", "ok", "ok", "ok", "ok")
  \/ \E id \in FileIds : SoftDeleteFile("u1", id)
  \/ \E id \in FileIds : StoreFilePermission(id, "u2", "view")
  \/ \E u \in Users, format \in {"", "application/pdf"},
        size_min \in {Null, Some(6)}, size_max \in {Null, Some(0), Some(7)},
        date_from \in {Null, Some(1)}, date_to \in {Null, Some(0)} :
       AdvancedSearch(u, "a", format, size_min, size_max, date_from, date_to, "ok")
  \/ \E u \in Users, q \in {"a", ""}, sel \in Outcomes :
       AdvancedSearch(u, q, "", Null, Null, Null, Null, sel)
  \/ /\ now < MaxTime
     /\ DOMAIN files = {}
     /\ Tick

SpecAdvanced == Init /\ [][NextAdvanced]_vars

\* Folder names: the users create folders at the root and inside the first
\* folder and rename them, the store failing or not.
NextNames ==
  \/ /\ nextFolderId <= MaxTreeFolders
     /\ \E u \in Users, name \in {"R", "S", ""},
           parentId \in {""} \cup (DOMAIN folders \cap {FolderId(1)}), ins \in Outcomes :
          CreateFolder(u, name, parentId, ins)
  \/ \E u \in Users, id \in TreeFolderIds, name \in {"R", "S"} : RenameFolder(u, id, name)
  \/ \E u \in Users : ListFolders(u, "")

SpecNames == Init /\ [][NextNames]_vars

\* Grants and the tree: u1 builds a folder, a child folder and a file inside
\* it, grant rows for u2 are put on any of them, and the permission middleware
\* is run for either user on each.
NextInherit ==
  \/ /\ nextFolderId <= MaxTreeFolders
     /\ \E parentId \in {""} \cup (DOMAIN folders \cap {FolderId(1)}) :
          CreateFolder("u1", "R", parentId, "ok")
  \/ /\ nextFileId <= MaxFiles
     /\ \E folderId \in {""} \cup (DOMAIN folders \cap {FolderId(1)}) :
          Upload("u1", TRUE, "a", 10, "application/pdf", folderId, "ok", "ok", "ok", "ok")
  \/ \E id \in FileIds, p \in Levels : StoreFilePermission(id, "u2", p)
  \/ \E id \in TreeFolderIds, p \in Levels : StoreFolderPermission(id, "u2", p)
  \/ \E u \in Users, id \in FileIds, L \in Levels : RunCheckFilePermission(u, id, L)
  \/ \E u \in Users, id \in TreeFolderIds, L \in Levels : RunCheckFolderPermission(u, id, L)

SpecInherit == Init /\ [][NextInherit]_vars

\* Grants: u1 owns a file and a folder, grant rows exist for either user, and
\* either user asks to grant either user a level.
NextGrant ==
  \/ /\ nextFileId <= MaxFiles
     /\ \E perm \in Outcomes :
          Upload("u1", TRUE, "a", 10, "application/pdf", "", "ok", "ok", "ok", perm)
  \/ /\ nextFolderId <= MaxFolders
     /\ CreateFolder("u1", "R", "", "ok")
  \/ \E id \in FileIds, v \in Users, p \in Levels : StoreFilePermission(id, v, p)
  \/ \E id \in FolderIds, v \in Users, p \in Levels : StoreFolderPermission(id, v, p)
  \/ \E u \in Users, id \in FileIds \cup {UuidParam}, email \in Users \cup {"", "nobody"},
        permission \in Levels :
       GrantFilePermission(u, id, email, permission)
  \/ \E u \in Users, id \in FolderIds \cup {UuidParam}, email \in Users \cup {"", "nobody"},
        permission \in Levels :
       GrantFolderPermission(u, id, email, permission)
  \/ \E u \in Users, id \in FileIds, v \in Users : RemoveFilePermission(u, id, v)

SpecGrant == Init /\ [][NextGrant]_vars

\* Reads: u1 owns files and folders, the first file is shared by link and
\* granted to u2, the first file and folder are trashed, time passes, and
\* every read route is called.
NextRead ==
  \/ /\ nextFileId <= MaxFiles
     /\ Upload("u1", TRUE, "a", 10, "application/pdf", "", "ok", "ok", "ok", "ok")
  \/ /\ nextFolderId <= MaxFolders
     /\ CreateFolder("u1", "a", "", "ok")
  \/ ShareFile("u1", FileId(1), "t1")
  \/ StoreFilePermission(FileId(1), "u2", "view")
  \/ SoftDeleteFile("u1", FileId(1))
  \/ SoftDeleteFolder("u1", FolderId(1))
  \/ \E u \in Users : ListFiles(u, "", Null)
  \/ \E u \in Users : ListFolders(u, "")
  \/ \E u \in Users : ListTrash(u)
  \/ \E u \in Users : ListFolderTrash(u)
  \/ \E u \in Users, id \in FileIds : GetFilePermissions(u, id)
  \/ \E u \in Users, id \in FileIds, sign \in Outcomes : DownloadFile(u, id, sign)
  \/ GetSharedFile("t1")
  \/ \E sign \in Outcomes : DownloadSharedFile("t1", sign)
  \/ \E u \in Users, rpc \in Outcomes : BasicSearch(u, "a", "", Null, Null, rpc, rpc)
  \/ \E u \in Users, sel \in Outcomes :
       AdvancedSearch(u, "a", "", Null, Null, Null, Null, sel)
  \/ /\ now < MaxTime
     /\ Tick

SpecRead == Init /\ [][NextRead]_vars

\* CSRF protection: sessions fetch tokens from /csrf-token while requests to
\* the guarded routes arrive with any x-csrf-token header, with or without an
\* Authorization header, and are served one at a time.  Uploads and folder
\* creations arrive while the id sequences are within their bounds.
CsrfRequests ==
  [route : GuardedRoutes, csrfToken : TokenHeaders, authorization : AuthHeaders,
   cookie : Sessions]

NextCsrf ==
  \/ \E s \in Sessions : GetCsrfToken(s)
  \/ \E r \in CsrfRequests :
       /\ request = NoRequest \/ resp /= NoResp
       /\ r.route = FileRoute("POST", <<"upload">>) => nextFileId <= MaxFiles
       /\ r.route = FolderRoute("POST", <<>>) => nextFolderId <= MaxFolders
       /\ Arrive(r)
  \/ Serve

SpecCsrf == Init /\ [][NextCsrf]_vars

\* Upload rate limiting: both users send upload requests, one at a time, while
\* the clock moves by a millisecond or by a whole window, staying within
\* MaxTime milliseconds of a multiple of the window; u2 uploads only at the
\* start.  An admitted request reaches the handler with or without a file.
NextRate ==
  \/ \E u \in Users :
       /\ u = "u2" => now = 0
       /\ userRateLimit(UploadMaxRequests, UploadWindowMs, "upload", u)
  \/ \E u \in Users :
       /\ resp = Pending("upload", u)
       /\ Upload(u, FALSE, "a", 10, "application/pdf", "", "ok", "ok", "ok", "ok")
  \/ /\ resp = Pending("upload", "u1")
     /\ nextFileId <= MaxFiles
     /\ Upload("u1", TRUE, "a", 10, "application/pdf", "", "ok", "ok", "ok", "ok")
  \/ \E ms \in {1, UploadWindowMs} :
       /\ now + ms <= UploadWindowMs + MaxTime
       /\ (now + ms) % UploadWindowMs <= MaxTime
       /\ Elapse(ms)

SpecRate == Init /\ [][NextRate]_vars

\* Logout: clients that hold the access tokens of u1 and of u2, or none, or a
\* forged one, log out and call protected routes in any order.
NextLogout ==
  \/ \E h \in BearerHeaders : Logout(h)
  \/ \E h \in BearerHeaders :
       LET auth == authenticateUser(h)
       IN IF auth.status /= 0
            THEN Refuse("listFiles", auth)
          ELSE ListFiles(auth.userId, "", Null)
  \/ \E h \in BearerHeaders :
       LET auth == authenticateUser(h)
       IN /\ nextFileId <= MaxFiles
          /\ IF auth.status /= 0
               THEN Refuse("upload", auth)
             ELSE Upload(auth.userId, TRUE, "a", 10, "application/pdf", "",
                         "ok", "ok", "ok", "ok")
  \/ \E h \in BearerHeaders, id \in FileIds :
       LET auth == authenticateUser(h)
       IN IF auth.status /= 0
            THEN Refuse("softDeleteFile", auth)
          ELSE SoftDeleteFile(auth.userId, id)
  \/ \E h \in BearerHeaders, id \in FileIds :
       LET auth == authenticateUser(h)
       IN IF auth.status /= 0
            THEN Refuse("restoreFile", auth)
          ELSE RestoreFile(auth.userId, id)
  \/ /\ now < MaxTime
     /\ Tick

SpecLogout == Init /\ [][NextLogout]_vars

\* Purge against restore: u1 uploads, trashes and restores a file while up to
\* MaxConcurrent purge requests for it are on their way through the handler.
NextPurgeRace ==
  \/ /\ nextFileId <= MaxFiles
     /\ Upload("u1", TRUE, "a", 10, "application/pdf", "", "ok", "ok", "ok", "ok")
  \/ \E id \in FileIds : SoftDeleteFile("u1", id)
  \/ \E id \in FileIds : RestoreFile("u1", id)
  \/ \E k \in Slots, u \in Users, id \in FileIds : PurgeFetch(k, u, id)
  \/ \E k \in Slots, rm \in RemoveOutcomes : PurgeRemove(k, rm)
  \/ \E k \in Slots, del \in Outcomes : PurgeDelete(k, del)
  \/ \E k \in Slots : Forget(k)

SpecPurgeRace == Init /\ [][NextPurgeRace]_vars

\* Concurrent soft-deletes, and concurrent restores: u1 owns a file and a
\* folder; batches of up to MaxConcurrent soft-delete requests, or of restore
\* requests, for the two by u1 run through their handlers while the clock
\* ticks; u2 joins with soft-deletes of the file.
\* A batch of the other kind starts when every request of the batch is
\* answered.
NextTrashRace ==
  \/ /\ nextFileId = 1
     /\ inflight = NoInflight
     /\ Upload("u1", TRUE, "a", 10, "application/pdf", "", "ok", "ok", "ok", "ok")
  \/ /\ nextFolderId = 1
     /\ inflight = NoInflight
     /\ CreateFolder("u1", "R", "", "ok")
  \/ \E k \in Slots, kind \in {"file", "folder"} :
       SoftDeleteSend(k, kind, "u1", FirstId(kind))
  \/ \E k \in Slots : SoftDeleteSend(k, "file", "u2", FileId(1))
  \/ \E k \in Slots : SoftDeleteApply(k)
  \/ \E k \in Slots, kind \in {"file", "folder"} :
       RestoreSend(k, kind, "u1", FirstId(kind))
  \/ \E k \in Slots : RestoreApply(k)
  \/ ForgetAll
  \/ /\ now < MaxTime
     /\ inflight /= NoInflight
     /\ Elapse(1)

SpecTrashRace == Init /\ [][NextTrashRace]_vars

\* Owners and grantees: either user uploads or creates a folder (the run
\* follows files or folders, which these requests never relate), the other
\* holds an edit grant on it, and both send every request that writes grant
\* rows, trashed-at or the share token, the grant requests also at level
\* owner.
NextOwner ==
  \/ /\ nextFileId <= MaxFiles
     /\ nextFolderId = 1
     /\ \E u \in Users, perm \in Outcomes :
          Upload(u, TRUE, "a", 10, "application/pdf", "", "ok", "ok", "ok", perm)
  \/ /\ nextFolderId <= MaxFolders
     /\ nextFileId = 1
     /\ \E u \in Users : CreateFolder(u, "R", "", "ok")
  \/ \E id \in FileIds, v \in Users : StoreFilePermission(id, v, "edit")
  \/ \E id \in FolderIds, v \in Users : StoreFolderPermission(id, v, "edit")
  \/ \E u \in Users, id \in FileIds : SoftDeleteFile(u, id)
  \/ \E u \in Users, id \in FileIds : RestoreFile(u, id)
  \/ \E u \in Users, id \in FileIds : PurgeFile(u, id, "ok", "ok")
  \/ \E u \in Users, id \in FileIds : ShareFile(u, id, "t1")
  \/ \E u \in Users, id \in FileIds : UnshareFile(u, id)
  \/ \E u, v \in Users, id \in FileIds, p \in {"edit", "owner"} :
       GrantFilePermission(u, id, EmailOf[v], p)
  \/ \E u, v \in Users, id \in FileIds : RemoveFilePermission(u, id, v)
  \/ \E u \in Users, id \in FolderIds : SoftDeleteFolder(u, id)
  \/ \E u \in Users, id \in FolderIds : RestoreFolder(u, id)
  \/ \E u, v \in Users, id \in FolderIds : GrantFolderPermission(u, id, EmailOf[v], "owner")

SpecOwner == Init /\ [][NextOwner]_vars

\* ------------------------------------------------ properties: vocabulary
\* The id-addressed operations, by the level their route demands.
FileViewOps == {"downloadFile"}
FileEditOps == {"renameFile"}
FileOwnerOps == {"softDeleteFile", "shareFile", "unshareFile",
                 "grantFilePermission", "removeFilePermission", "getFilePermissions"}
FileUnguardedOps == {"restoreFile", "purgeFile"}
FileOps == FileViewOps \cup FileEditOps \cup FileOwnerOps \cup FileUnguardedOps
FolderEditOps == {"renameFolder"}
FolderOwnerOps == {"softDeleteFolder", "grantFolderPermission"}
FolderUnguardedOps == {"restoreFolder"}
FolderOps == FolderEditOps \cup FolderOwnerOps \cup FolderUnguardedOps

AccessDenied(r) == r.status = 403 /\ r.error = "Access denied"
InsufficientPermission(r) == r.status = 403 /\ r.error = "Insufficient permissions"
NotFound(r) == r.status = 404

\* Request r addresses an existing file (folder) its caller does not own and
\* holds no grant on.
FileStranger(r) ==
  /\ r.op \in FileOps
  /\ r.id \in DOMAIN files
  /\ files[r.id].owner_id /= r.caller
  /\ <<r.id, r.caller>> \notin DOMAIN file_permissions
FolderStranger(r) ==
  /\ r.op \in FolderOps
  /\ r.id \in DOMAIN folders
  /\ folders[r.id].owner_id /= r.caller
  /\ <<r.id, r.caller>> \notin DOMAIN folder_permissions

\* Request r addresses an existing file (folder) its caller does not own and
\* holds a grant of the given level on.
FileGrantee(r, level) ==
  /\ r.op \in FileOps
  /\ r.id \in DOMAIN files
  /\ files[r.id].owner_id /= r.caller
  /\ <<r.id, r.caller>> \in DOMAIN file_permissions
  /\ file_permissions[<<r.id, r.caller>>] = level
FolderGrantee(r, level) ==
  /\ r.op \in FolderOps
  /\ r.id \in DOMAIN folders
  /\ folders[r.id].owner_id /= r.caller
  /\ <<r.id, r.caller>> \in DOMAIN folder_permissions
  /\ folder_permissions[<<r.id, r.caller>>] = level

\* ------------------------------------------------------------------- C1
\* C1: whatever level the route requires and whatever rows the grant tables
\* hold, the permission check of a file (folder) lets the caller through when
\* the caller is the file's (folder's) owner.
C1_OwnerAllowed ==
  /\ (resp.op = "checkFilePermission" /\ resp.id \in DOMAIN files
        /\ files[resp.id].owner_id = resp.caller) => resp.data = Some("next")
  /\ (resp.op = "checkFolderPermission" /\ resp.id \in DOMAIN folders
        /\ folders[resp.id].owner_id = resp.caller) => resp.data = Some("next")

\* An owner who holds only a view row on their own file has passed the check
\* of an owner-level route.
C1_Witness ==
  /\ resp.op = "checkFilePermission"
  /\ resp.arg = "owner"
  /\ resp.id \in DOMAIN files
  /\ files[resp.id].owner_id = resp.caller
  /\ <<resp.id, resp.caller>> \in DOMAIN file_permissions
  /\ file_permissions[<<resp.id, resp.caller>>] = "view"
  /\ resp.data = Some("next")

\* ------------------------------------------------------------------- C2
\* C2 as stated: every id-addressed operation by a caller who neither owns the
\* resource nor holds a grant on it is answered with AccessDenied and leaves
\* the tables and the bucket unchanged.
C2_StrangerAccessDenied ==
  [][ /\ FileStranger(resp') => AccessDenied(resp') /\ tables' = tables
      /\ FolderStranger(resp') => AccessDenied(resp') /\ tables' = tables ]_vars

\* C2, amended: every id-addressed operation by such a caller is refused and
\* leaves the tables and the bucket unchanged; the refusal is AccessDenied for
\* the routes behind the permission middleware and NotFound for restore and
\* purge, which filter on the owner instead.
C2_StrangerRefused ==
  [][ /\ FileStranger(resp') =>
           /\ tables' = tables
           /\ IF resp'.op \in FileUnguardedOps THEN NotFound(resp')
              ELSE AccessDenied(resp')
      /\ FolderStranger(resp') =>
           /\ tables' = tables
           /\ IF resp'.op \in FolderUnguardedOps THEN NotFound(resp')
              ELSE AccessDenied(resp') ]_vars

\* A stranger's restore of another user's trashed file has been answered.
C2_Witness ==
  /\ resp.op = "restoreFile"
  /\ FileStranger(resp)
  /\ files[resp.id].deleted_at /= Null
  /\ NotFound(resp)

\* ------------------------------------------------------------------- C3
\* C3 as stated: for a non-owner holding an edit grant, download and rename
\* succeed and take effect, and every owner-required operation is denied with
\* InsufficientPermission and changes nothing.
C3_EditGrantee ==
  [][ /\ FileGrantee(resp', "edit") =>
           /\ (resp'.op = "downloadFile" /\ files[resp'.id].deleted_at = Null) =>
                /\ resp'.status = 200
                /\ resp'.data = Some(files[resp'.id].storage_path)
           /\ resp'.op = "renameFile" =>
                /\ resp'.status = 200
                /\ files'[resp'.id].name = sanitizeFileName(resp'.arg)
           /\ resp'.op \in FileOwnerOps =>
                InsufficientPermission(resp') /\ tables' = tables
      /\ FolderGrantee(resp', "edit") =>
           /\ resp'.op = "renameFolder" =>
                /\ resp'.status = 200
                /\ folders'[resp'.id].name = sanitizeInput(resp'.arg)
           /\ resp'.op \in FolderOwnerOps =>
                InsufficientPermission(resp') /\ tables' = tables ]_vars

\* ------------------------------------------------------------------- C4
\* C4 as stated: for an Active file on which a non-owner holds a view grant,
\* the grantee's download succeeds with a signed URL of the file's object and
\* the grantee's rename fails with InsufficientPermission, the name unchanged.
C4_ViewGrantee ==
  [][ (FileGrantee(resp', "view") /\ files[resp'.id].deleted_at = Null) =>
        /\ resp'.op = "downloadFile" =>
             /\ resp'.status = 200
             /\ resp'.data = Some(files[resp'.id].storage_path)
        /\ resp'.op = "renameFile" =>
             /\ InsufficientPermission(resp')
             /\ files'[resp'.id].name = files[resp'.id].name ]_vars

\* ------------------------------------------------------------------- C5
\* The lifecycle position of the file with the n-th id of the sequence.
Life(n) ==
  IF FileId(n) \in DOMAIN files
  THEN IF files[FileId(n)].deleted_at = Null THEN "Active" ELSE "Trashed"
  ELSE IF n < nextFileId THEN "Gone" ELSE "Unborn"

\* C5: a purge of an Active file is answered NotFound and deletes neither the
\* row nor the object; a row leaves the table only from Trashed, so a file
\* moves only Active -> Trashed, Trashed -> Active and Trashed -> Purged
\* (besides being created, or its id being spent by a refused insert).
C5_Lifecycle ==
  [][ /\ \A id \in FileIds :
           (resp'.op = "purgeFile" /\ resp'.id = id /\ id \in DOMAIN files
              /\ files[id].deleted_at = Null) =>
             /\ NotFound(resp')
             /\ files' = files
             /\ storage' = storage
      /\ \A n \in 1..MaxFiles :
           Life(n)' /= Life(n) =>
             <<Life(n), Life(n)'>> \in {<<"Unborn", "Active">>, <<"Unborn", "Gone">>,
                                        <<"Active", "Trashed">>, <<"Trashed", "Active">>,
                                        <<"Trashed", "Gone">>} ]_vars

\* The owner's purge of their own Active file has been answered NotFound, the
\* row and the object still there.
C5_Witness ==
  /\ resp.op = "purgeFile"
  /\ NotFound(resp)
  /\ resp.id \in DOMAIN files
  /\ files[resp.id].owner_id = resp.caller
  /\ files[resp.id].deleted_at = Null
  /\ files[resp.id].storage_path \in storage

\* ------------------------------------------------------------------- C6
\* C6: for files and folders, the owner's soft-delete of a resource that is
\* already Trashed is answered NotFound and leaves the row (its trashed-at
\* included) as it was; a restore of an Active resource is answered NotFound
\* and changes nothing.
C6_RepeatedTransitions ==
  [][ /\ (resp'.op = "softDeleteFile" /\ resp'.id \in DOMAIN files
            /\ files[resp'.id].owner_id = resp'.caller
            /\ files[resp'.id].deleted_at /= Null) =>
           NotFound(resp') /\ tables' = tables
      /\ (resp'.op = "restoreFile" /\ resp'.id \in DOMAIN files
            /\ files[resp'.id].deleted_at = Null) =>
           NotFound(resp') /\ tables' = tables
      /\ (resp'.op = "softDeleteFolder" /\ resp'.id \in DOMAIN folders
            /\ folders[resp'.id].owner_id = resp'.caller
            /\ folders[resp'.id].deleted_at /= Null) =>
           NotFound(resp') /\ tables' = tables
      /\ (resp'.op = "restoreFolder" /\ resp'.id \in DOMAIN folders
            /\ folders[resp'.id].deleted_at = Null) =>
           NotFound(resp') /\ tables' = tables ]_vars

\* A second soft-delete, sent after the clock has moved on from the first, has
\* been answered NotFound with the first trashed-at still in the row.
C6_Witness ==
  /\ resp.op = "softDeleteFile"
  /\ NotFound(resp)
  /\ resp.id \in DOMAIN files
  /\ files[resp.id].owner_id = resp.caller
  /\ files[resp.id].deleted_at /= Null
  /\ files[resp.id].deleted_at[1] < now

\* ------------------------------------------------------------------- C7
\* The last request was a successful restore that answers the successful
\* soft-delete whose row snap holds, no other request served in between.
FileRoundTrip ==
  /\ resp.op = "restoreFile" /\ resp.status = 200
  /\ snap /= Null /\ snap[1].kind = "file" /\ snap[1].id = resp.id
FolderRoundTrip ==
  /\ resp.op = "restoreFolder" /\ resp.status = 200
  /\ snap /= Null /\ snap[1].kind = "folder" /\ snap[1].id = resp.id

\* C7 as stated: after a successful soft-delete followed by a successful
\* restore every field of the row other than trashed-at, updated-at included,
\* equals its value before the soft-delete.
C7_RoundTripAllFields ==
  /\ FileRoundTrip =>
       \A c \in DOMAIN snap[1].row \ {"deleted_at"} :
         files[resp.id][c] = snap[1].row[c]
  /\ FolderRoundTrip =>
       \A c \in DOMAIN snap[1].row \ {"deleted_at"} :
         folders[resp.id][c] = snap[1].row[c]

\* C7, amended: after a successful soft-delete followed by a successful
\* restore every field of the row other than trashed-at and updated-at equals
\* its value before the soft-delete, and trashed-at is null again.
C7_RoundTrip ==
  /\ FileRoundTrip =>
       /\ files[resp.id].deleted_at = Null
       /\ \A c \in DOMAIN snap[1].row \ {"deleted_at", "updated_at"} :
            files[resp.id][c] = snap[1].row[c]
  /\ FolderRoundTrip =>
       /\ folders[resp.id].deleted_at = Null
       /\ \A c \in DOMAIN snap[1].row \ {"deleted_at", "updated_at"} :
            folders[resp.id][c] = snap[1].row[c]

\* A shared file has been soft-deleted and, later, restored: its updated-at
\* is no longer what it was.
C7_Witness ==
  /\ FileRoundTrip
  /\ snap[1].row.share_token /= Null
  /\ files[resp.id].updated_at /= snap[1].row.updated_at

\* ------------------------------------------------------------------- C8
\* C8: a folder soft-delete or restore leaves the trashed-at of every file
\* and of every other folder, the folder's children included, as it was.
C8_NoCascade ==
  [][ resp'.op \in {"softDeleteFolder", "restoreFolder"} =>
        /\ \A f \in DOMAIN files :
             f \in DOMAIN files' /\ files'[f].deleted_at = files[f].deleted_at
        /\ \A g \in DOMAIN folders \ {resp'.id} :
             g \in DOMAIN folders' /\ folders'[g].deleted_at = folders[g].deleted_at ]_vars

\* A folder holding an Active child folder and an Active file has been
\* soft-deleted.
C8_Witness ==
  /\ resp.op = "softDeleteFolder" /\ resp.status = 200
  /\ folders[resp.id].deleted_at /= Null
  /\ \E g \in DOMAIN folders :
       folders[g].parent_id = Some(resp.id) /\ folders[g].deleted_at = Null
  /\ \E f \in DOMAIN files :
       files[f].folder_id = Some(resp.id) /\ files[f].deleted_at = Null

\* ------------------------------------------------------------------- C9
\* C9 as stated: a user's active listing for a folder (the root when none is
\* named) holds exactly the user's untrashed files of that folder, and the
\* user's trash listing exactly the user's trashed files; so a file the user
\* only holds a grant for is in neither.
C9_Listings ==
  /\ resp.op = "listFiles" =>
       resp.ids = {f \in DOMAIN files :
                     /\ files[f].owner_id = resp.caller
                     /\ files[f].deleted_at = Null
                     /\ files[f].folder_id =
                          IF resp.arg = "" THEN Null ELSE Some(resp.arg)}
  /\ resp.op = "listTrash" =>
       resp.ids = {f \in DOMAIN files :
                     files[f].owner_id = resp.caller /\ files[f].deleted_at /= Null}

C11_GrantWriteNotFatal ==
  (/\ resp.op = "upload"
   /\ Len(calls) = 3
   /\ calls[2][1] = "files.insert" /\ calls[2][3] = "ok")
  => /\ resp.status = 200
     /\ resp.id \in DOMAIN files
     /\ files[resp.id].storage_path = calls[1][2]
     /\ calls[1][2] \in storage

\* ------------------------------------------------------------------ C13
AnonymousOps == {"getSharedFile", "downloadSharedFile"}

\* The requests since the last successful revoke were all anonymous accesses,
\* and the last one presented the token that revoke took from the file.
AccessAfterRevoke ==
  /\ resp.op \in AnonymousOps
  /\ snap /= Null /\ snap[1].kind = "revoked"
  /\ snap[1].row.share_token = Some(resp.arg)

\* C13: an anonymous access that presents a token a revoke has just taken
\* from its file is answered NotFound, as is every access by a token no file
\* holds (one never issued, or revoked and not issued again).
C13_RevokedTokenNotFound ==
  /\ AccessAfterRevoke => NotFound(resp)
  /\ (resp.op \in AnonymousOps /\ isValidUUID(resp.arg)
        /\ \A f \in DOMAIN files : files[f].share_token /= Some(resp.arg))
       => NotFound(resp)

\* A signed-URL download by a token revoked just before has been answered
\* NotFound, the file itself still Active.
C13_Witness ==
  /\ AccessAfterRevoke
  /\ resp.op = "downloadSharedFile"
  /\ NotFound(resp)
  /\ snap[1].id \in DOMAIN files
  /\ files[snap[1].id].deleted_at = Null

\* ------------------------------------------------------------------ C14
\* C14 as stated: an anonymous request by token obtains the file's metadata,
\* or a signed URL for it (the signing service permitting), exactly when a row
\* holds that token with the public flag set and trashed-at null; and no
\* unauthenticated request by file id obtains a URL.
C14_AnonymousAccessIff ==
  /\ resp.op = "getSharedFile" =>
       /\ resp.status = 200 <=> SharedRows(resp.arg) /= {}
       /\ resp.status = 200 => resp.data[1].id \in SharedRows(resp.arg)
  /\ (resp.op = "downloadSharedFile" /\ resp.status /= 500) =>
       /\ resp.status = 200 <=> SharedRows(resp.arg) /= {}
       /\ resp.status = 200 =>
            \E f \in SharedRows(resp.arg) : resp.data = Some(files[f].storage_path)
  /\ (resp.op = "downloadFile" /\ resp.caller = "") => resp.status /= 200

\* ------------------------------------------------------------------ C15
\* C15 as stated: the answer of an anonymous access by token holds only name,
\* size, format, identifier and creation time, and none of its fields holds
\* the owner's id or the object's path.
C15_PublicProjection ==
  (resp.op = "getSharedFile" /\ resp.status = 200) =>
    /\ DOMAIN resp.data[1] \subseteq {"name", "size", "format", "id", "created_at"}
    /\ \A c \in DOMAIN resp.data[1] :
         \A f \in DOMAIN files :
           resp.data[1][c] \notin {files[f].path, files[f].storage_path}

\* ------------------------------------------------------------------ C16
\* C16: in every state a file's public flag is set exactly when its share
\* token is non-null, and only a successful issue-link or revoke on that file
\* changes either of the two.
C16_PublicIffToken ==
  [][ /\ \A f \in DOMAIN files' :
           files'[f].is_public <=> files'[f].share_token /= Null
      /\ \A f \in DOMAIN files \cap DOMAIN files' :
           (\/ files'[f].is_public /= files[f].is_public
            \/ files'[f].share_token /= files[f].share_token)
           => /\ resp'.op \in {"shareFile", "unshareFile"}
              /\ resp'.id = f
              /\ resp'.status = 200 ]_vars

\* A link was issued and then revoked: token and flag are both clear again.
C16_Witness ==
  /\ resp.op = "unshareFile" /\ resp.status = 200
  /\ snap /= Null /\ snap[1].row.share_token /= Null /\ snap[1].row.is_public
  /\ files[resp.id].share_token = Null
  /\ ~files[resp.id].is_public

\* ------------------------------------------------------------------ C17
\* C17: no two file rows hold the same non-null share token.
C17_TokenUnique ==
  \A f, g \in DOMAIN files :
    (f /= g /\ files[f].share_token /= Null) =>
      files[f].share_token /= files[g].share_token

\* The owner's issue-link on an Active file was refused while another file
\* holds a token: the token drawn was that file's.
C17_Witness ==
  /\ resp.op = "shareFile"
  /\ NotFound(resp)
  /\ FileSoftDeleteRow(resp.caller, resp.id)
  /\ \E g \in DOMAIN files \ {resp.id} : files[g].share_token /= Null

\* ------------------------------------------------------------------ C18
\* C18 as stated: the owner's issue-link on an Active file always ends with a
\* working link, a collision of the drawn token with another file's being
\* retried with a new token; so the request is answered with success and the
\* file holds a token.
C18_IssueLinkRetries ==
  (resp.op = "shareFile" /\ FileSoftDeleteRow(resp.caller, resp.id)) =>
    /\ resp.status = 200
    /\ files[resp.id].share_token /= Null

\* ------------------------------------------------------------------ C12
\* C12 as stated: once a purge has deleted the row of a file, the file stays
\* gone: no grant row for it remains, every later restore, download, rename
\* and issue-link for it is refused, no listing, trash listing or search
\* result holds it, and an anonymous access succeeds only for a token that a
\* row still holds; and a purge whose object removal failed still goes on to
\* the row deletion and, when that succeeds, is answered with success with the
\* row gone.
C12_PurgeFinal ==
  [][ /\ \A n \in 1..MaxFiles :
          /\ Life(n) = "Gone" => Life(n)' = "Gone"
          /\ Life(n)' = "Gone" =>
               /\ \A k \in DOMAIN file_permissions' : k[1] /= FileId(n)
               /\ (resp'.id = FileId(n)
                     /\ resp'.op \in {"restoreFile", "downloadFile", "renameFile", "shareFile"})
                    => resp'.status >= 400
               /\ resp'.op \in {"listFiles", "listTrash"} => FileId(n) \notin resp'.ids
               /\ (resp'.op = "search" /\ resp'.status = 200) =>
                    \A i \in DOMAIN resp'.data[1].files : resp'.data[1].files[i] /= FileId(n)
      /\ (resp'.op \in AnonymousOps /\ resp'.status = 200) =>
           \E f \in DOMAIN files' : files'[f].share_token = Some(resp'.arg)
      /\ (resp'.op = "purgeFile" /\ calls' /= <<>> /\ calls'[1][3] /= "ok") =>
           /\ Len(calls') = 2
           /\ calls'[2][3] = "ok" =>
                (resp'.status = 200 /\ resp'.id \notin DOMAIN files')
    ]_vars

\* ------------------------------------------------------------------ C19
\* C19: every file and every folder that a basic search returns to its caller
\* is not Trashed and is owned by the caller or granted to the caller; so a
\* resource that only another user owns or holds a grant on is never returned.
C19_SearchVisible ==
  (resp.op = "search" /\ resp.status = 200) =>
    /\ \A i \in DOMAIN resp.data[1].files :
         /\ resp.data[1].files[i] \in DOMAIN files
         /\ files[resp.data[1].files[i]].deleted_at = Null
         /\ \/ files[resp.data[1].files[i]].owner_id = resp.caller
            \/ <<resp.data[1].files[i], resp.caller>> \in DOMAIN file_permissions
    /\ \A i \in DOMAIN resp.data[1].folders :
         /\ resp.data[1].folders[i] \in DOMAIN folders
         /\ folders[resp.data[1].folders[i]].deleted_at = Null
         /\ \/ folders[resp.data[1].folders[i]].owner_id = resp.caller
            \/ <<resp.data[1].folders[i], resp.caller>> \in DOMAIN folder_permissions

\* A search of u2 returned a file and a folder of u1 that are granted to u2,
\* while another Active file of u1 whose name matches, and on which u2 holds
\* no grant, is not in the result.
C19_Witness ==
  /\ resp.op = "search" /\ resp.status = 200 /\ resp.caller = "u2"
  /\ \E i \in DOMAIN resp.data[1].files :
       /\ files[resp.data[1].files[i]].owner_id = "u1"
       /\ <<resp.data[1].files[i], "u2">> \in DOMAIN file_permissions
  /\ \E i \in DOMAIN resp.data[1].folders :
       /\ folders[resp.data[1].folders[i]].owner_id = "u1"
       /\ <<resp.data[1].folders[i], "u2">> \in DOMAIN folder_permissions
  /\ \E g \in DOMAIN files :
       /\ files[g].deleted_at = Null
       /\ Rank(files[g].name, sanitizeInput(resp.arg)) > 0
       /\ <<g, "u2">> \notin DOMAIN file_permissions
       /\ \A i \in DOMAIN resp.data[1].files : resp.data[1].files[i] /= g

\* ------------------------------------------------------------------ C20
\* C20 as stated: for each kind that a basic search covers, the list returned
\* for page p with page size n is exactly the entries (p-1)*n+1 .. p*n of the
\* caller's visible matching resources of that kind (not Trashed, owned by or
\* granted to the caller, name matching the query), each once, sorted by
\* relevance descending and, among equals, by creation time descending; n is
\* in 1..50.
C20_SearchPage ==
  (resp.op = "search" /\ resp.status = 200) =>
    LET query == sanitizeInput(resp.arg)
        n == resp.data[1].pagination.limit
        p == resp.data[1].pagination.page
        visibleFiles ==
          {f \in DOMAIN files :
             /\ files[f].deleted_at = Null
             /\ (files[f].owner_id = resp.caller
                  \/ <<f, resp.caller>> \in DOMAIN file_permissions)
             /\ Rank(files[f].name, query) > 0}
        visibleFolders ==
          {g \in DOMAIN folders :
             /\ folders[g].deleted_at = Null
             /\ (folders[g].owner_id = resp.caller
                  \/ <<g, resp.caller>> \in DOMAIN folder_permissions)
             /\ Rank(folders[g].name, query) > 0}
        FileBefore ==
          {r \in visibleFiles \X visibleFiles :
             \/ Rank(files[r[1]].name, query) > Rank(files[r[2]].name, query)
             \/ /\ Rank(files[r[1]].name, query) = Rank(files[r[2]].name, query)
                /\ files[r[1]].created_at > files[r[2]].created_at}
        FolderBefore ==
          {r \in visibleFolders \X visibleFolders :
             \/ Rank(folders[r[1]].name, query) > Rank(folders[r[2]].name, query)
             \/ /\ Rank(folders[r[1]].name, query) = Rank(folders[r[2]].name, query)
                /\ folders[r[1]].created_at > folders[r[2]].created_at}
    IN /\ n \in 1..50
       /\ (\E i \in DOMAIN calls : calls[i][2] = "search_files_paginated") =>
            \E l \in Orderings(visibleFiles, FileBefore) :
              resp.data[1].files = LimitOffset(l, n, (p - 1) * n)
       /\ (\E i \in DOMAIN calls : calls[i][2] = "search_folders_paginated") =>
            \E l \in Orderings(visibleFolders, FolderBefore) :
              resp.data[1].folders = LimitOffset(l, n, (p - 1) * n)

\* ------------------------------------------------------------------ C21
\* C21 as stated: the basic search response reports hasMore = true exactly
\* when the list of some kind that was searched holds a full page, that is
\* page-size many entries.
C21_HasMorePerKind ==
  (resp.op = "search" /\ resp.status = 200) =>
    (resp.data[1].pagination.hasMore
       <=> \/ /\ \E i \in DOMAIN calls : calls[i][2] = "search_files_paginated"
              /\ Len(resp.data[1].files) = resp.data[1].pagination.limit
           \/ /\ \E i \in DOMAIN calls : calls[i][2] = "search_folders_paginated"
              /\ Len(resp.data[1].folders) = resp.data[1].pagination.limit)

\* ------------------------------------------------------------------ C22
\* C22 as stated: a basic search response holds at most page-size many
\* results, files and folders counted together.
C22_TotalAtMostPage ==
  (resp.op = "search" /\ resp.status = 200) =>
    Len(resp.data[1].files) + Len(resp.data[1].folders) <= resp.data[1].pagination.limit

Conflict(r) == r.status = 400 /\ r.error = "Folder with this name already exists"

\* C24 as stated: no two folder rows have the same owner, parent and name, the
\* null parent of the root included; and a create or rename answered with
\* Conflict leaves the folder rows as they were.
C24_FolderNamesUnique ==
  [][ /\ \A g, h \in DOMAIN folders' :
           (g /= h /\ folders'[g].owner_id = folders'[h].owner_id
              /\ folders'[g].parent_id = folders'[h].parent_id)
             => folders'[g].name /= folders'[h].name
      /\ (resp'.op \in {"createFolder", "renameFolder"} /\ Conflict(resp'))
           => folders' = folders
    ]_vars

\* ------------------------------------------------------------------ C25
\* Request r addresses a file (folder) id that no row has.
FileAbsent(r) == r.op \in FileOps /\ r.id \notin DOMAIN files
FolderAbsent(r) == r.op \in FolderOps /\ r.id \notin DOMAIN folders

\* The denial that depends on the request alone: its operation, caller, id
\* and argument, and nothing of the tables.
DenialOf(r) ==
  CASE r.op \in {"restoreFile", "purgeFile"} ->
         Reply(r.op, r.caller, r.id, r.arg, 404, "File not found in trash")
    [] r.op = "restoreFolder" ->
         Reply(r.op, r.caller, r.id, r.arg, 404, "Folder not found in trash")
    [] OTHER -> Reply(r.op, r.caller, r.id, r.arg, 403, "Access denied")

\* C25: an id-addressed request on an id that no row has, and the same request
\* on a resource that exists, is owned by another user and carries no grant
\* for the caller, receive the same response: in both states the whole
\* response is the denial fixed by the request alone, so the caller cannot
\* tell the two states apart.
C25_ExistenceHidden ==
  [][ /\ (FileAbsent(resp') \/ FileStranger(resp')) => resp' = DenialOf(resp')
      /\ (FolderAbsent(resp') \/ FolderStranger(resp')) => resp' = DenialOf(resp')
    ]_vars

\* A stranger asked to restore another user's trashed file, which exists, and
\* received the denial of a missing file.
C25_Witness ==
  /\ resp.op = "restoreFile"
  /\ FileStranger(resp)
  /\ files[resp.id].deleted_at /= Null
  /\ resp = DenialOf(resp)

\* ------------------------------------------------------------------ C26
\* C26: the permission check of a file (folder) lets the caller through only
\* if the caller owns it or holds a grant row, of at least the level the route
\* requires, on that very file (folder); so a grant on the folder that holds
\* the file, or on the parent folder, gives no access to it.
C26_NoInheritance ==
  /\ (resp.op = "checkFilePermission" /\ resp.data = Some("next")) =>
       /\ resp.id \in DOMAIN files
       /\ \/ files[resp.id].owner_id = resp.caller
          \/ /\ <<resp.id, resp.caller>> \in DOMAIN file_permissions
             /\ permissionLevels[file_permissions[<<resp.id, resp.caller>>]]
                  >= permissionLevels[resp.arg]
  /\ (resp.op = "checkFolderPermission" /\ resp.data = Some("next")) =>
       /\ resp.id \in DOMAIN folders
       /\ \/ folders[resp.id].owner_id = resp.caller
          \/ /\ <<resp.id, resp.caller>> \in DOMAIN folder_permissions
             /\ permissionLevels[folder_permissions[<<resp.id, resp.caller>>]]
                  >= permissionLevels[resp.arg]

\* u2 holds an owner grant on folder D and on nothing else; u1's file inside D
\* and u1's child folder of D exist; the check of the file for a view-level
\* route has refused u2.
C26_Witness ==
  /\ resp.op = "checkFilePermission" /\ resp.caller = "u2" /\ resp.arg = "view"
  /\ AccessDenied(resp)
  /\ resp.id \in DOMAIN files
  /\ files[resp.id].folder_id /= Null
  /\ <<files[resp.id].folder_id[1], "u2">> \in DOMAIN folder_permissions
  /\ folder_permissions[<<files[resp.id].folder_id[1], "u2">>] = "owner"
  /\ \E g \in DOMAIN folders :
       /\ folders[g].parent_id = files[resp.id].folder_id
       /\ <<g, "u2">> \notin DOMAIN folder_permissions

\* ------------------------------------------------------------------ C27
\* C27 as stated: a grant table holds at most one row for a resource and a
\* grantee (the tables are keyed by that pair); and when the owner of a file
\* (folder) asks to grant view or edit to a user who already holds a grant row
\* on it, the owner's own row included, the request succeeds and the row
\* holds the new level afterwards.
C27_GrantOverwrites ==
  [][ /\ (/\ resp'.op = "grantFilePermission"
           /\ resp'.id \in DOMAIN files
           /\ files[resp'.id].owner_id = resp'.caller
           /\ <<resp'.id, resp'.arg>> \in DOMAIN file_permissions
           /\ resp'.data \in {Some("view"), Some("edit")})
          => /\ resp'.status = 200
             /\ <<resp'.id, resp'.arg>> \in DOMAIN file_permissions'
             /\ Some(file_permissions'[<<resp'.id, resp'.arg>>]) = resp'.data
      /\ (/\ resp'.op = "grantFolderPermission"
           /\ resp'.id \in DOMAIN folders
           /\ folders[resp'.id].owner_id = resp'.caller
           /\ <<resp'.id, resp'.arg>> \in DOMAIN folder_permissions
           /\ resp'.data \in {Some("view"), Some("edit")})
          => /\ resp'.status = 200
             /\ <<resp'.id, resp'.arg>> \in DOMAIN folder_permissions'
             /\ Some(folder_permissions'[<<resp'.id, resp'.arg>>]) = resp'.data
    ]_vars

\* ------------------------------------------------------------------ C28
\* The texts of the collaborators' errors.
RawErrors == {ErrStorage, ErrStorageDown, ErrDbDown, ErrForeignKey, ErrUnique, ErrNoRows}

\* C28 as stated: no response carries a collaborator's raw error text: where a
\* response's message is one of the collaborators' texts, it is a text that
\* sanitizing leaves as it is, so that it is the sanitized message as well.
C28_NoRawErrorText ==
  resp.error \in RawErrors => sanitizeErrorMessage(resp.error) = resp.error

\* ------------------------------------------------------------------ C29
\* The read operations.
ReadOps == {"listFiles", "listFolders", "listTrash", "listFolderTrash",
            "getFilePermissions", "downloadFile", "getSharedFile",
            "downloadSharedFile", "search", "advancedSearch"}

\* C29: a step that serves a read operation leaves every file row, folder row
\* and grant row as it was, the trashed-at and updated-at fields included.
C29_ReadsWriteNothing ==
  [][ resp'.op \in ReadOps =>
        /\ files' = files
        /\ folders' = folders
        /\ file_permissions' = file_permissions
        /\ folder_permissions' = folder_permissions
    ]_vars

\* A read has been answered with success at a time later than the last write
\* of a file row it read, so that a write by the read would have shown in the
\* row's updated-at.
C29_Witness ==
  /\ resp.op \in ReadOps /\ resp.status = 200
  /\ \E f \in DOMAIN files : files[f].updated_at < now

\* The request at the middleware presents the token that /csrf-token issued
\* to its session and that the session still holds.
PresentsSessionToken ==
  /\ request.csrfToken /= Null
  /\ request.csrfToken = session[request.cookie]

\* A step that answers the request at the middleware.
Served ==
  /\ request /= NoRequest
  /\ request' = request
  /\ resp = NoResp
  /\ resp' /= NoResp

\* C30: a state-changing request is executed only if the CSRF token it
\* presents equals the token the CSRF token endpoint issued and stored for
\* the requester's session; a request with no token or with any other value
\* is answered 403 and changes no state.
C30_CsrfTokenRequired ==
  [][(Served /\ request.route.method /= "GET" /\ ~PresentsSessionToken)
       => /\ resp'.status = 403
          /\ UNCHANGED <<tables, nextFileId, nextFolderId>>]_vars

\* ------------------------------------------------------------------ C31
\* The admissions of user u that fall in the interval of length ms that
\* starts at time t.
AdmittedWithin(u, t, ms) ==
  {i \in DOMAIN admitted[u] : admitted[u][i] >= t /\ admitted[u][i] < t + ms}

\* No interval of the window's length holds more admissions of one user than
\* the limit; the fullest interval starts at an admission.
RateRespected ==
  \A u \in Users : \A i \in DOMAIN admitted[u] :
    Cardinality(AdmittedWithin(u, admitted[u][i], UploadWindowMs)) <= UploadMaxRequests

\* C31: for every user at most 10 upload requests are admitted within any
\* one-minute interval; a further request in the interval is answered 429
\* with nothing stored and no row inserted; and a request of one user leaves
\* the counter and the admissions of every other user as they were.
C31_UploadRateLimit ==
  [][/\ RateRespected'
     /\ resp'.status = 429 => UNCHANGED <<tables, nextFileId, nextFolderId>>
     /\ \A u \in Users :
          (resp' /= resp /\ resp'.caller /= u)
            => requests'[u] = requests[u] /\ admitted'[u] = admitted[u]
    ]_vars

\* ------------------------------------------------------------------ C32
\* The last response tells user u that the logout succeeded.
LoggedOut(u) == resp.op = "logout" /\ resp.caller = u /\ resp.status = 200
\* The last response is that of a protected route which authentication let
\* pass as user u.
PassedAs(u) == resp.op \in {"listFiles", "upload", "softDeleteFile", "restoreFile"}
               /\ resp.caller = u

\* C32: after a user's logout request succeeds, a later request to a
\* protected route that carries the access token the user held before the
\* logout is rejected by authentication; here the request that follows the
\* logout at once.
C32_LogoutInvalidates ==
  [][\A u \in Users : LoggedOut(u) => ~PassedAs(u)']_vars

\* ------------------------------------------------------------------ C33
\* C33: in every interleaving of purge requests with restore requests on the
\* same file, a step removes the file's row or its object only while the file
\* is Trashed; so no restore is answered with success and then followed by the
\* removal of the row or the object by a purge that started earlier.
C33_PurgeOnlyTrashed ==
  [][\A id \in DOMAIN files :
       (\/ id \notin DOMAIN files'
        \/ files[id].storage_path \in storage \ storage')
         => files[id].deleted_at /= Null]_vars

\* ------------------------------------------------------------------ C34
\* The requests of route op on resource id that are in the slots.
Batch(op, id) ==
  {k \in Slots : inflight[k] /= Null /\ inflight[k][1].op = op /\ inflight[k][1].id = id}
\* Two or more requests of route op on resource id ran concurrently, each sent
\* by the owner while the resource was in the state the route asks for, and
\* all are answered.
RanConcurrently(op, id) ==
  /\ Cardinality(Batch(op, id)) >= 2
  /\ \A k \in Batch(op, id) : inflight[k][1].pc = "done" /\ inflight[k][1].ready
Winners(op, id) == {k \in Batch(op, id) : inflight[k][1].resp.status = 200}
TrashedAt(kind, id) == IF kind = "file" THEN files[id].deleted_at ELSE folders[id].deleted_at

\* C34: of two or more concurrent soft-delete requests by the owner on the
\* same Active resource exactly one is answered with success and each other
\* with NotFound, and trashed-at holds the value the successful one wrote; of
\* concurrent restore requests on a Trashed resource exactly one succeeds,
\* each other is answered NotFound, and the resource is Active.
C34_OneWinner ==
  \A kind \in {"file", "folder"} : \A id \in {FirstId(kind)} :
    /\ RanConcurrently(TrashOp(kind), id) =>
         /\ Cardinality(Winners(TrashOp(kind), id)) = 1
         /\ \A k \in Batch(TrashOp(kind), id) \ Winners(TrashOp(kind), id) :
              NotFound(inflight[k][1].resp)
         /\ \A k \in Winners(TrashOp(kind), id) :
              TrashedAt(kind, id) = Some(inflight[k][1].at)
    /\ RanConcurrently(RestoreOp(kind), id) =>
         /\ Cardinality(Winners(RestoreOp(kind), id)) = 1
         /\ \A k \in Batch(RestoreOp(kind), id) \ Winners(RestoreOp(kind), id) :
              NotFound(inflight[k][1].resp)
         /\ TrashedAt(kind, id) = Null

\* Two soft-deletes of u1's file were sent at different times while it was
\* Active, and both are answered.
C34_Witness ==
  /\ RanConcurrently(TrashOp("file"), FileId(1))
  /\ \E j, k \in Batch(TrashOp("file"), FileId(1)) :
       inflight[j][1].at /= inflight[k][1].at

\* ------------------------------------------------------------------ C35
\* Folders g (in table t) and h (in table s) have the same owner, parent and name.
SameSlot(t, g, s, h) ==
  /\ t[g].owner_id = s[h].owner_id
  /\ t[g].parent_id = s[h].parent_id
  /\ t[g].name = s[h].name

\* The step gives folder g a place it did not have: g is created, or renamed.
Placed(g) ==
  /\ g \in DOMAIN folders'
  /\ g \notin DOMAIN folders \/ folders[g].name /= folders'[g].name

\* C35 as stated: while a folder is Trashed no create or rename gives another
\* folder of the same owner the same parent and name, and a restore of a
\* Trashed folder by its owner succeeds.
C35_TrashedNameReserved ==
  [][ /\ \A g \in DOMAIN folders', h \in DOMAIN folders :
           (g /= h /\ folders[h].deleted_at /= Null /\ Placed(g))
             => ~SameSlot(folders', g, folders, h)
      /\ \A h \in DOMAIN folders :
           (resp'.op = "restoreFolder" /\ resp'.id = h /\ folders[h].deleted_at /= Null
              /\ resp'.caller = folders[h].owner_id)
             => resp'.status = 200
    ]_vars

\* ------------------------------------------------------------------ C36
\* C36 as stated: every file row, Active or Trashed, has its object in the
\* Object Store, whichever collaborator calls have failed on the way.
C36_RowsHaveObjects ==
  \A f \in DOMAIN files : files[f].storage_path \in storage

\* ------------------------------------------------------------------ C37
\* Folder reference ref of a row owned by u is null, or names an existing
\* folder owned by u.
OwnFolder(ref, u) ==
  ref = Null \/ (ref[1] \in DOMAIN folders /\ folders[ref[1]].owner_id = u)

\* C37 as stated: every file's folder and every folder's parent is an existing
\* folder of the same owner.
C37_ContainmentWithinOwner ==
  /\ \A f \in DOMAIN files : OwnFolder(files[f].folder_id, files[f].owner_id)
  /\ \A g \in DOMAIN folders : OwnFolder(folders[g].parent_id, folders[g].owner_id)

\* ------------------------------------------------------------------ C38
\* No entry of list l occurs twice.
NoDuplicates(l) == \A i, j \in DOMAIN l : l[i] = l[j] => i = j

\* C38 as stated: a basic search result lists each file and each folder at
\* most once, however many grant rows the resource has.
C38_SearchListsOnce ==
  (resp.op = "search" /\ resp.status = 200) =>
    /\ NoDuplicates(resp.data[1].files)
    /\ NoDuplicates(resp.data[1].folders)

\* ------------------------------------------------------------------ C39
\* The requests since the last successful issue-link on a file that already
\* had a token were all anonymous accesses, and the last one presented the
\* token the file had before, which the new token replaced.
AccessAfterReissue ==
  /\ resp.op \in AnonymousOps
  /\ snap /= Null /\ snap[1].kind = "reissued"
  /\ snap[1].row.share_token = Some(resp.arg)
  /\ files[snap[1].id].share_token /= Some(resp.arg)

\* C39: a file is reachable by at most one token; after a successful
\* issue-link the file's token is the one just issued; and an anonymous access
\* by the token it replaced is answered NotFound.
C39_OneShareToken ==
  /\ \A f \in DOMAIN files :
       Cardinality({t \in Tokens : f \in SharedRows(t)}) <= 1
  /\ (resp.op = "shareFile" /\ resp.status = 200)
       => files[resp.id].share_token = Some(resp.arg)
  /\ (snap /= Null /\ snap[1].kind = "reissued"
        /\ files[snap[1].id].share_token /= snap[1].row.share_token)
       => SharedRows(snap[1].row.share_token[1]) = {}
  /\ AccessAfterReissue => NotFound(resp)

\* A file that had a link got a new one, and a metadata access by the old
\* token has been answered NotFound while the new token reaches the file.
C39_Witness ==
  /\ AccessAfterReissue
  /\ resp.op = "getSharedFile"
  /\ NotFound(resp)
  /\ snap[1].row.is_public
  /\ \E t \in Tokens : snap[1].id \in SharedRows(t)

\* ------------------------------------------------------------------ C40
\* No grant row of level owner names a user other than the resource's owner.
OwnerGrantsAreOwners ==
  /\ \A k \in DOMAIN file_permissions :
       file_permissions[k] = "owner" => files[k[1]].owner_id = k[2]
  /\ \A k \in DOMAIN folder_permissions :
       folder_permissions[k] = "owner" => folders[k[1]].owner_id = k[2]

\* The grant rows of resource id in table t.
GrantsOn(t, id) == [k \in {k \in DOMAIN t : k[1] = id} |-> t[k]]

\* The step changes the grant rows, the trashed-at or the share token of file
\* f (of folder g), its creation and its removal included.
FileChanged(f) ==
  \/ GrantsOn(file_permissions, f) /= GrantsOn(file_permissions', f)
  \/ (f \in DOMAIN files) /= (f \in DOMAIN files')
  \/ /\ f \in DOMAIN files /\ f \in DOMAIN files'
     /\ \/ files[f].deleted_at /= files'[f].deleted_at
        \/ files[f].share_token /= files'[f].share_token
FolderChanged(g) ==
  \/ GrantsOn(folder_permissions, g) /= GrantsOn(folder_permissions', g)
  \/ (g \in DOMAIN folders) /= (g \in DOMAIN folders')
  \/ /\ g \in DOMAIN folders /\ g \in DOMAIN folders'
     /\ folders[g].deleted_at /= folders'[g].deleted_at

\* The owner of resource id of table t before the step, or after it where the
\* step creates the resource.
OwnerAt(t, tNext, id) == IF id \in DOMAIN t THEN t[id].owner_id ELSE tNext[id].owner_id

\* C40: no owner-level grant row names a user other than the resource's
\* owner, and a request that changes a resource's grant rows, trashed-at or
\* share token is a request of the resource's owner.
C40_OwnerOnlyChanges ==
  [][ /\ OwnerGrantsAreOwners'
      /\ resp'.op /= "none" =>
           /\ \A f \in FileIds :
                FileChanged(f) => resp'.caller = OwnerAt(files, files', f)
           /\ \A g \in FolderIds :
                FolderChanged(g) => resp'.caller = OwnerAt(folders, folders', g)
    ]_vars

\* The owner's grant request at level owner for the other user has been
\* refused while that user holds an edit grant on the file, and the file's
\* owner-level row is the owner's own.
C40_Witness ==
  /\ resp.op = "grantFilePermission" /\ resp.status /= 200
  /\ resp.id \in DOMAIN files
  /\ resp.caller = files[resp.id].owner_id
  /\ resp.data = Some("owner")
  /\ resp.arg /= resp.caller
  /\ <<resp.id, resp.arg>> \in DOMAIN file_permissions
  /\ file_permissions[<<resp.id, resp.arg>>] = "edit"
  /\ <<resp.id, resp.caller>> \in DOMAIN file_permissions
  /\ file_permissions[<<resp.id, resp.caller>>] = "owner"

====
